---- MODULE Spec2Model ----
(***************************************************************************)
(* Model of the graphrag-multiview retrieval pipeline and entity resolver. *)
(*                                                                         *)
(*   - the archived LangGraph pipeline (archive/langgraph_implementation/  *)
(*     graph.py, nodes.py): one state machine, a node per action;          *)
(*   - the live pipeline's fusion and reranker (graphrag/retrieval/        *)
(*     pipeline.py, reranker.py);                                          *)
(*   - the entity resolver (graphrag/ingestion/resolver.py);               *)
(*   - the session store (graphrag/retrieval/pipeline_langgraph.py) and    *)
(*     the graph-store driver of the pipeline call it awaits.              *)
(*                                                                         *)
(* Conventions.  Optional values are sequences: <<>> is None, <<x>> is x.  *)
(* Scores, confidences and weights are integers in units of 1/10000.       *)
(* A query is the sequence of its whitespace-separated words.  A passage   *)
(* content is the sequence of its 100-character blocks (the last block may *)
(* be shorter), so content[:200] is the first two blocks.                  *)
(***************************************************************************)
EXTENDS Integers, Sequences, FiniteSets, TLC

VARIABLES
    pc,         \* LangGraph: the node about to run, "END", "raised", or
                \* "awaiting_traversal" (graph expansion at an await)
    state,      \* LangGraph: the RetrievalState of the run
    visited,    \* LangGraph: the nodes that have run (history)
    fn,         \* function call: the function called ("none" in a run)
    arg,        \* function call: its input
    out,        \* function call: <<>> before it returns, then <<result>>
    graph,      \* resolver: the entity nodes of the graph store
    issued,     \* resolver: the number of ids uuid4 has handed out
    resolutions, \* resolver: the mentions resolved so far, with their results
    session_store, \* sessions: _session_store, <<>> for a session it does not
                   \* hold and <<history>> for one it holds
    calls,      \* sessions: the run_full_retrieval calls, by number
    begun,      \* sessions: the number of calls begun
    drivers     \* sessions: the calls whose graph-store driver has been
                \* created and not closed

vars == <<pc, state, visited, fn, arg, out, graph, issued, resolutions,
          session_store, calls, begun, drivers>>

pipelineVars == <<pc, state, visited>>
harnessVars == <<fn, arg, out>>
resolverVars == <<graph, issued, resolutions>>
sessionVars == <<session_store, calls, begun, drivers>>

\* ------------------------------------------------------------------------
\* Bounds of the model
\* ------------------------------------------------------------------------

MaxVec == 2         \* results of a vector recall in a run
MaxPassages == 4    \* passages handed to evidence assembly in a call
MaxGateItems == 2   \* passages, and graph facts, of a pack handed to the gate
MaxFuse == 2        \* items of a skip buffer handed to fusion in a call
MaxRerank == 11     \* candidates handed to a reranker in a call
MaxResolves == 3    \* resolve calls against one graph
MaxSynth == 11      \* fused items handed to answer synthesis in a call
MaxCand == 2        \* vector candidates of a run of the live pipeline
MaxRecall == 11     \* results of the broad recall of a run
MaxPaths == 16      \* paths that start at the node with the most paths
MaxEntities == 11   \* entities handed to graph expansion in a call
MaxRuns == 2        \* run_full_retrieval calls on the session store

\* ------------------------------------------------------------------------
\* Generic helpers
\* ------------------------------------------------------------------------

Min(a, b) == IF a < b THEN a ELSE b

Range(s) == {s[i] : i \in 1..Len(s)}

\* s[:n] of Python
Take(s, n) == SubSeq(s, 1, Min(n, Len(s)))

SeqsUpTo(S, n) == UNION {[1..k -> S] : k \in 0..n}

RECURSIVE FlattenSeq(_)
FlattenSeq(ss) == IF ss = <<>> THEN <<>> ELSE Head(ss) \o FlattenSeq(Tail(ss))

\* LangGraph merges a node's partial update into the state, key by key.
ApplyUpdate(s, upd) ==
    [f \in DOMAIN s |-> IF f \in DOMAIN upd THEN upd[f] ELSE s[f]]

\* list.sort(key=score, reverse=True): a stable insertion into a descending
\* list, after every element whose score is >= the new one.
RECURSIVE InsertDesc(_, _)
InsertDesc(sorted, x) ==
    IF sorted = <<>> THEN <<x>>
    ELSE IF Head(sorted).score >= x.score
         THEN <<Head(sorted)>> \o InsertDesc(Tail(sorted), x)
         ELSE <<x>> \o sorted

RECURSIVE SortDescFrom(_, _)
SortDescFrom(sorted, rest) ==
    IF rest = <<>> THEN sorted
    ELSE SortDescFrom(InsertDesc(sorted, Head(rest)), Tail(rest))

SortDesc(s) == SortDescFrom(<<>>, s)

\* ------------------------------------------------------------------------
\* Text
\* ------------------------------------------------------------------------

\* str.lower() on one word of the vocabulary.
LowerWord(w) ==
    CASE w = "What" -> "what"
      [] w = "PPE" -> "ppe"
      [] w = "PPE?" -> "ppe?"
      [] w = "Which" -> "which"
      [] w = "How" -> "how"
      [] w = "Disable" -> "disable"
      [] w = "V-201" -> "v-201"
      [] w = "V-201?" -> "v-201?"
      [] w = "R-1" -> "r-1"
      [] w = "C-7" -> "c-7"
      [] w = "P-3" -> "p-3"
      [] w = "It" -> "it"
      [] w = "Who" -> "who"
      [] OTHER -> w

Lower(text) == [i \in 1..Len(text) |-> LowerWord(text[i])]

\* The keywords that occur as substrings of a lowercase word other than the
\* word itself ("skipped" contains "skip").
SubstringsOf(w) ==
    CASE w = "skipped" -> {"skip"}
      [] w = "ppe?" -> {"ppe"}
      [] w = "overrides" -> {"override"}
      [] OTHER -> {}

\* kw in text, for a one-word kw
InText(kw, text) ==
    \E i \in 1..Len(text) : kw = text[i] \/ kw \in SubstringsOf(text[i])

\* The lowercase keywords that occur in the lowercased text of a block.
BlockKeywords(b) ==
    CASE b = "b_lockout" -> {"lockout"}
      [] b = "b_v201" -> {"v-201"}
      [] b = "b_caution_v201" -> {"caution", "v-201"}
      [] OTHER -> {}

\* kw in content.lower()
InContent(kw, content) ==
    \E i \in 1..Len(content) : kw \in BlockKeywords(content[i])

\* ------------------------------------------------------------------------
\* The inputs of a LangGraph run and the gateways' answers
\* ------------------------------------------------------------------------

Queries ==
    { <<"What", "PPE", "is", "required", "for", "valve", "V-201?">>,
      <<"bypass", "the", "interlock">>,
      <<"How", "to", "Disable", "the", "alarm">>,
      <<"lockout", "steps">>,
      <<"replace", "pump", "seal">> }

DocIds == {"D1", "D2"}

\* metadata.doc_type of the chunks of a document ("" when the payload has none)
DocTypeOf(doc) == IF doc = "D1" THEN "SOP" ELSE ""

Contents == { <<"b_plain">>, <<"b_lockout">>, <<"b_v201">> }

\* The similarity of the i-th result: the vector store answers in descending
\* order of similarity.
RecallScore(i) == 9000 - 1000 * (i - 1)

\* A broad recall: MaxRecall results of one document, in descending order of
\* similarity
BroadRecall ==
    [i \in 1..MaxRecall |->
        [chunk_id |-> i, doc_id |-> "D1", content |-> <<"b_plain">>,
         score |-> 9000 - 100 * i,
         metadata |-> [doc_type |-> DocTypeOf("D1")]]]

\* qdrant.search: up to MaxVec results, or the broad recall; chunk ids unique.
VectorResults ==
    { [i \in 1..k |->
         [chunk_id |-> i, doc_id |-> d[i], content |-> c[i],
          score |-> RecallScore(i),
          metadata |-> [doc_type |-> DocTypeOf(d[i])]]] :
      <<k, d, c>> \in UNION { {k} \X [1..k -> DocIds] \X [1..k -> Contents] :
                              k \in 0..MaxVec } }
    \cup { BroadRecall }

\* llm.structured_output: the entities it extracts, or <<"raise">>.
ExtractedEntity(name, type, confidence) ==
    [name |-> name, type |-> type, confidence |-> confidence]

LlmExtractions ==
    { <<>>,
      << ExtractedEntity("V-201", "ASSET", 9000) >>,
      << ExtractedEntity("V-201", "ASSET", 9000),
         ExtractedEntity("X-9", "ASSET", 5000) >>,
      << ExtractedEntity("T-500", "ASSET", 9000) >> }

\* The graph store: the paths that start at a node, by the node's id.
GraphNode(id, name) == [id |-> id, name |-> name]

\* The ids of the procedures of tank T-500
ProcedureId(i) ==
    << "SOP-01", "SOP-02", "SOP-03", "SOP-04", "SOP-05", "SOP-06", "SOP-07",
       "SOP-08", "SOP-09", "SOP-10", "SOP-11", "SOP-12", "SOP-13", "SOP-14",
       "SOP-15", "SOP-16", "SOP-17", "SOP-18", "SOP-19", "SOP-20", "SOP-21",
       "SOP-22" >>[i]

PathsFrom(nodeId) ==
    IF nodeId = "V-201"
    THEN << [nodes |-> <<GraphNode("V-201", "V-201"), GraphNode("R-1", "LOTO")>>,
             relationships |-> <<"HAS_SAFETY_RULE">>],
            [nodes |-> <<GraphNode("V-201", "V-201"), GraphNode("C-7", "seal")>>,
             relationships |-> <<"HAS_COMPONENT">>],
            [nodes |-> <<GraphNode("V-201", "V-201"), GraphNode("P-3", "isolate")>>,
             relationships |-> <<"HAS_PROCEDURE">>] >>
    ELSE IF nodeId = "T-500"
    THEN [i \in 1..MaxPaths |->
             [nodes |-> <<GraphNode("T-500", "T-500"),
                          GraphNode(ProcedureId(i), ProcedureId(i))>>,
              relationships |-> <<"HAS_PROCEDURE">>]]
    ELSE <<>>

NodeExists(nodeId) == nodeId \in {"V-201", "T-500"}

\* llm.chat_completion: the answer text, a sequence of pieces.
LlmAnswers == { <<"a_plain">>, <<"a_hedged">>, <<"a_safety">> }

\* The lowercase phrases that occur in a piece of an answer.
AnswerPhrases(piece) ==
    CASE piece = "a_hedged" -> {"probably"}
      [] piece = "a_safety" -> {"safety"}
      [] OTHER -> {}

InAnswer(phrase, answer) ==
    \E i \in 1..Len(answer) : phrase \in AnswerPhrases(answer[i])

\* ------------------------------------------------------------------------
\* RetrievalState (core/models.py) and run_retrieval's initial state
\* ------------------------------------------------------------------------

InitialState(query) ==
    [ query |-> query,
      normalized_query |-> <<>>,
      intent |-> "None",
      metadata_filters |-> <<>>,
      vector_candidates |-> <<>>,
      extracted_entities |-> <<>>,
      graph_facts |-> <<>>,
      reranked_evidence |-> <<>>,
      evidence_pack |-> <<>>,
      skip_vector |-> <<>>,
      skip_graph |-> <<>>,
      skip_rerank |-> <<>>,
      fused_evidence |-> <<>>,
      answer |-> <<>>,
      citations |-> <<>>,
      confidence |-> 0,
      safety_escalation |-> <<>>,
      stage_timings |-> {"start"} ]

\* ------------------------------------------------------------------------
\* Down path nodes (nodes.py)
\* ------------------------------------------------------------------------

\* abbreviations.get(w, w), the expansion as the words it joins in
Abbreviation(w) ==
    CASE w = "pm" -> <<"preventive", "maintenance">>
      [] w = "cm" -> <<"corrective", "maintenance">>
      [] w = "rca" -> <<"root", "cause", "analysis">>
      [] w = "mtbf" -> <<"mean", "time", "between", "failures">>
      [] w = "mttr" -> <<"mean", "time", "to", "repair">>
      [] w = "sop" -> <<"standard", "operating", "procedure">>
      [] w = "ppe" -> <<"personal", "protective", "equipment">>
      [] OTHER -> <<w>>

query_normalizer_node(s) ==
    LET words == Lower(s.query)
        expanded_words == [i \in 1..Len(words) |-> Abbreviation(words[i])]
    IN  [ normalized_query |-> FlattenSeq(expanded_words),
          stage_timings |-> s.stage_timings \cup {"query_normalizer"} ]

\* p in query, for a pattern p of one or two words
PatternIn(p, text) ==
    IF Len(p) = 1 THEN InText(p[1], text)
    ELSE \E i \in 1..(Len(text) - 1) : text[i] = p[1] /\ text[i + 1] = p[2]

troubleshooting_patterns ==
    { <<"troubleshoot">>, <<"diagnose">>, <<"problem">>, <<"issue">>,
      <<"failure">>, <<"not", "working">>, <<"vibration">>, <<"noise">>,
      <<"leak">>, <<"overheating">>, <<"alarm">>, <<"fault">>, <<"error">> }

definition_patterns ==
    { <<"what", "is">>, <<"what", "are">>, <<"define">>, <<"meaning", "of">>,
      <<"explain">>, <<"definition">> }

asset_patterns ==
    { <<"specification">>, <<"specs">>, <<"rating">>, <<"capacity">>,
      <<"model">>, <<"manufacturer">>, <<"serial">>, <<"installed">>,
      <<"location">> }

safety_patterns ==
    { <<"safety">>, <<"hazard">>, <<"ppe">>, <<"lockout">>, <<"tagout">>,
      <<"permit">>, <<"risk">>, <<"danger">> }

\* The four checks run in this order and each overwrites the intent.
ClassifyIntent(query) ==
    LET i0 == "PROCEDURE"
        i1 == IF \E p \in troubleshooting_patterns : PatternIn(p, query)
              THEN "TROUBLESHOOTING" ELSE i0
        i2 == IF \E p \in definition_patterns : PatternIn(p, query)
              THEN "DEFINITION" ELSE i1
        i3 == IF \E p \in asset_patterns : PatternIn(p, query)
              THEN "ASSET_INFO" ELSE i2
    IN  IF \E p \in safety_patterns : PatternIn(p, query)
        THEN "SAFETY" ELSE i3

DocTypeFilter(intent) ==
    CASE intent = "PROCEDURE" -> <<"SOP", "OEM_MANUAL", "CHECKLIST">>
      [] intent = "TROUBLESHOOTING" -> <<"OEM_MANUAL", "RCA", "BULLETIN">>
      [] intent = "DEFINITION" -> <<"STANDARD", "OEM_MANUAL">>
      [] intent = "SAFETY" -> <<"SOP", "STANDARD">>
      [] OTHER -> <<>>

intent_classifier_node(s) ==
    LET query == Lower(s.normalized_query)
        intent == ClassifyIntent(query)
    IN  [ intent |-> intent,
          metadata_filters |-> DocTypeFilter(intent),
          stage_timings |-> s.stage_timings \cup {"intent_classifier"} ]

vector_recall_node(s, results) ==
    [ vector_candidates |-> results,
      skip_vector |-> Take(results, 10),
      stage_timings |-> s.stage_timings \cup {"vector_recall"} ]

\* The matches of \b[A-Z]{1,3}-\d{2,4}[A-Z]?\b in a word of the query and in
\* a block of a passage.
WordAssetTags(w) == IF w \in {"V-201", "V-201?"} THEN <<"V-201">> ELSE <<>>

BlockAssetTags(b) ==
    IF b \in {"b_v201", "b_caution_v201"} THEN <<"V-201">> ELSE <<>>

\* re.finditer(asset_pattern, context) over the normalized query followed by
\* content[:500] of the first five candidates
FallbackEntities(s) ==
    LET q == s.normalized_query
        fromQuery == FlattenSeq([i \in 1..Len(q) |-> WordAssetTags(q[i])])
        top == Take(s.vector_candidates, 5)
        tagsOf(c) == LET head == Take(c, 5)
                     IN  FlattenSeq([j \in 1..Len(head) |-> BlockAssetTags(head[j])])
        fromTop == FlattenSeq([i \in 1..Len(top) |-> tagsOf(top[i].content)])
        tags == fromQuery \o fromTop
    IN  [i \in 1..Len(tags) |-> ExtractedEntity(tags[i], "ASSET", 9000)]

\* extraction: the structured output of the language model, [ok |-> FALSE]
\* when the call or its validation raises.
entity_extractor_node(s, extraction) ==
    [ extracted_entities |->
          IF extraction.ok THEN extraction.entities ELSE FallbackEntities(s),
      stage_timings |-> s.stage_timings \cup {"entity_extractor"} ]

\* traversal_configs[intent]
TraversalConfig(intent) ==
    CASE intent = "TROUBLESHOOTING" ->
           [edge_types |-> {"INDICATES", "CAUSED_BY", "AFFECTS", "MITIGATES"},
            max_hops |-> 3]
      [] intent = "DEFINITION" ->
           [edge_types |-> {"DEFINED_AS", "SYNONYM_OF", "IS_A", "PART_OF"},
            max_hops |-> 2]
      [] intent = "ASSET_INFO" ->
           [edge_types |-> {"HAS_SUBSYSTEM", "HAS_COMPONENT", "INSTALLED_AT",
                            "MADE_BY"},
            max_hops |-> 2]
      [] intent = "SAFETY" ->
           [edge_types |-> {"HAS_SAFETY_RULE", "MITIGATES", "REQUIRES"},
            max_hops |-> 2]
      [] OTHER ->
           [edge_types |-> {"HAS_PROCEDURE", "HAS_STEP", "APPLIES_TO",
                            "REQUIRES_TOOL"},
            max_hops |-> 2]

\* neo4j.traverse_from_node: the paths of the allowed edge types, up to limit
traverse_from_node(start_node_id, edge_types, max_hops, limit) ==
    LET allowed(path) == /\ Range(path.relationships) \subseteq edge_types
                         /\ Len(path.relationships) <= max_hops
    IN  Take(SelectSeq(PathsFrom(start_node_id), allowed), limit)

\* rels[0].replace('_', ' ').lower()
RelationText(rel) ==
    CASE rel = "HAS_SAFETY_RULE" -> "has safety rule"
      [] rel = "HAS_COMPONENT" -> "has component"
      [] rel = "HAS_PROCEDURE" -> "has procedure"
      [] rel = "LOCATED_AT" -> "located at"
      [] rel = "RESPONSIBLE_FOR" -> "responsible for"
      [] OTHER -> rel

GraphFact(path) ==
    LET nodes == path.nodes
        rels == path.relationships
    IN  [ fact |-> <<nodes[1].name>>
                   \o (IF rels # <<>> THEN <<RelationText(rels[1])>> ELSE <<>>)
                   \o <<nodes[Len(nodes)].name>>,
          source_nodes |-> [i \in 1..Len(nodes) |-> nodes[i].id],
          confidence |-> 9000 ]

\* The facts one entity contributes: none when a gateway call, or the
\* validation of a GraphFact, raises; none when the node is missing; else one
\* per path of two or more nodes.
EntityFacts(entity, config, raises) ==
    IF raises \/ ~NodeExists(entity.name) THEN <<>>
    ELSE LET paths == traverse_from_node(entity.name, config.edge_types,
                                         config.max_hops, 20)
             long(path) == Len(path.nodes) >= 2
             kept == SelectSeq(paths, long)
         IN  [i \in 1..Len(kept) |-> GraphFact(kept[i])]

\* failing: the positions of the entities whose traversal raises
graph_expander_node(s, failing) ==
    LET config == TraversalConfig(s.intent)
        entities == Take(s.extracted_entities, 10)
        graph_facts ==
            FlattenSeq([i \in 1..Len(entities) |->
                           EntityFacts(entities[i], config, i \in failing)])
    IN  [ graph_facts |-> graph_facts,
          skip_graph |-> Take(graph_facts, 15),
          stage_timings |-> s.stage_timings \cup {"graph_expander"} ]

\* authority_map.get(doc_type, 0.7)
AuthorityScore(doc_type) ==
    CASE doc_type = "OEM_MANUAL" -> 10000
      [] doc_type = "STANDARD" -> 9500
      [] doc_type = "SOP" -> 9000
      [] doc_type = "BULLETIN" -> 8500
      [] doc_type = "RCA" -> 8000
      [] OTHER -> 7000

RECURSIVE SumSeq(_)
SumSeq(ns) == IF ns = <<>> THEN 0 ELSE Head(ns) + SumSeq(Tail(ns))

\* The number of (fact, source node) pairs whose node id occurs in the content
NodeMentions(content, graph_facts) ==
    LET ofFact(f) ==
            Cardinality({j \in 1..Len(f.source_nodes) :
                            InContent(LowerWord(f.source_nodes[j]), content)})
    IN  SumSeq([i \in 1..Len(graph_facts) |-> ofFact(graph_facts[i])])

compute_hybrid_score(result, graph_facts) ==
    LET vector_score == result.score
        graph_relevance == Min(1000 * NodeMentions(result.content, graph_facts),
                               10000)
        recency_score == 5000
        authority_score == AuthorityScore(result.metadata.doc_type)
    IN  (35 * vector_score + 30 * graph_relevance + 15 * recency_score
         + 20 * authority_score) \div 100

\* VectorSearchResult(chunk_id=..., doc_id=..., content=..., score=score,
\* metadata=...): a new result with the candidate's identity fields
ScoredResult(result, score) ==
    [ chunk_id |-> result.chunk_id,
      doc_id |-> result.doc_id,
      content |-> result.content,
      score |-> score,
      metadata |-> result.metadata ]

\* The candidates with their hybrid scores, sorted and cut to the first ten
RerankCandidates(vector_candidates, graph_facts) ==
    LET scored_results ==
            [i \in 1..Len(vector_candidates) |->
                ScoredResult(vector_candidates[i],
                             compute_hybrid_score(vector_candidates[i],
                                                  graph_facts))]
    IN  Take(SortDesc(scored_results), 10)

\* Mutant: reranking also rewrites the vector skip buffer with its own order.
reranker_node_RewritesSkipVector(s) ==
    LET reranked == RerankCandidates(s.vector_candidates, s.graph_facts)
    IN  [ reranked_evidence |-> reranked,
          skip_rerank |-> Take(reranked, 5),
          skip_vector |-> reranked,
          stage_timings |-> s.stage_timings \cup {"reranker"} ]

reranker_node(s) ==
    LET reranked == RerankCandidates(s.vector_candidates, s.graph_facts)
    IN  [ reranked_evidence |-> reranked,
          skip_rerank |-> Take(reranked, 5),
          stage_timings |-> s.stage_timings \cup {"reranker"} ]

\* content[:200] + "..." if len(content) > 200 else content
Excerpt(content) ==
    IF Len(content) > 2 THEN Take(content, 2) \o <<"...">> ELSE content

Citation(passage) ==
    [ doc_id |-> passage.doc_id,
      excerpt |-> Excerpt(passage.content),
      relevance_score |-> passage.score ]

\* Mutant: the citation loop without the seen_docs test.
RECURSIVE BuildCitations_NoSeenDocs(_, _)
BuildCitations_NoSeenDocs(citations, passages) ==
    IF passages = <<>> THEN citations
    ELSE BuildCitations_NoSeenDocs(Append(citations, Citation(Head(passages))),
                                   Tail(passages))

\* The citation loop: a passage adds a citation unless its document is in
\* seen_docs (the documents of the citations so far).
RECURSIVE BuildCitations(_, _)
BuildCitations(citations, passages) ==
    IF passages = <<>> THEN citations
    ELSE LET passage == Head(passages)
             seen_docs == {citations[i].doc_id : i \in 1..Len(citations)}
         IN  IF passage.doc_id \notin seen_docs
             THEN BuildCitations(Append(citations, Citation(passage)),
                                 Tail(passages))
             ELSE BuildCitations(citations, Tail(passages))

assembler_safety_keywords ==
    {"warning", "caution", "danger", "ppe", "lockout", "hazard"}

SafetyRules(passages) ==
    LET flagged(passage) ==
            \E kw \in assembler_safety_keywords : InContent(kw, passage.content)
        hits == SelectSeq(passages, flagged)
    IN  [i \in 1..Len(hits) |->
            [content |-> hits[i].content, source |-> hits[i].doc_id,
             type |-> "extracted"]]

EvidencePack(passages, graph_facts) ==
    [ passages |-> passages,
      graph_facts |-> graph_facts,
      safety_rules |-> SafetyRules(passages),
      citations |-> BuildCitations(<<>>, passages),
      conflicts |-> <<>> ]

evidence_assembler_node(s) ==
    [ evidence_pack |-> << EvidencePack(s.reranked_evidence, s.graph_facts) >>,
      stage_timings |-> s.stage_timings \cup {"evidence_assembler"} ]

\* ------------------------------------------------------------------------
\* Routing (graph.py)
\* ------------------------------------------------------------------------

gate_safety_keywords == {"bypass", "override", "shortcut", "skip", "disable"}

\* Mutant: the evidence count tested before the safety rule.
evidence_sufficiency_check_CountFirst(s) ==
    IF s.evidence_pack = <<>> THEN "insufficient"
    ELSE LET evidence == s.evidence_pack[1]
             query_lower == Lower(s.query)
             total_evidence == Len(evidence.passages) + Len(evidence.graph_facts)
         IN  IF total_evidence < 2 THEN "insufficient"
             ELSE IF /\ evidence.safety_rules # <<>>
                     /\ \E kw \in gate_safety_keywords : InText(kw, query_lower)
             THEN "safety_critical"
             ELSE IF evidence.citations = <<>> THEN "insufficient"
             ELSE "sufficient"

evidence_sufficiency_check(s) ==
    IF s.evidence_pack = <<>> THEN "insufficient"
    ELSE LET evidence == s.evidence_pack[1]
             query_lower == Lower(s.query)
             total_evidence == Len(evidence.passages) + Len(evidence.graph_facts)
         IN  IF /\ evidence.safety_rules # <<>>
                /\ \E kw \in gate_safety_keywords : InText(kw, query_lower)
             THEN "safety_critical"
             ELSE IF total_evidence < 2 THEN "insufficient"
             ELSE IF evidence.citations = <<>> THEN "insufficient"
             ELSE "sufficient"

\* Mutant: an empty citation list no longer asks for a retry.
guardrail_check_NoCitationTest(s) ==
    IF s.safety_escalation # <<>> THEN "escalate"
    ELSE IF s.confidence < 3000 THEN "retry"
    ELSE "pass"

guardrail_check(s) ==
    IF s.safety_escalation # <<>> THEN "escalate"
    ELSE IF s.confidence < 3000 THEN "retry"
    ELSE IF s.citations = <<>> THEN "retry"
    ELSE "pass"

\* Mutant: the insufficient route wired to the up path.
SufficiencyEdge_InsufficientToFusion(route) ==
    CASE route = "sufficient" -> "skip_fusion"
      [] route = "insufficient" -> "skip_fusion"
      [] route = "safety_critical" -> "safety_escalation"

\* The conditional edges of create_retrieval_graph
SufficiencyEdge(route) ==
    CASE route = "sufficient" -> "skip_fusion"
      [] route = "insufficient" -> "insufficient_evidence"
      [] route = "safety_critical" -> "safety_escalation"

\* Mutant: the retry route wired back to fusion.
GuardrailEdge_RetryToFusion(route) ==
    CASE route = "pass" -> "END"
      [] route = "escalate" -> "safety_escalation"
      [] route = "retry" -> "skip_fusion"

GuardrailEdge(route) ==
    CASE route = "pass" -> "END"
      [] route = "escalate" -> "safety_escalation"
      [] route = "retry" -> "answer_synthesizer"

insufficient_evidence_node(s) ==
    [ answer |-> <<"FALLBACK">>,
      confidence |-> 0,
      citations |-> <<>> ]

SafetyEscalation ==
    [ reason |-> "Query involves potentially hazardous operations",
      severity |-> "HIGH",
      recommended_action |-> "Contact HSE representative",
      contact_roles |-> <<"HSE Representative", "Maintenance Supervisor">> ]

\* Mutant: the escalation answer reported with full confidence.
safety_escalation_node_Confident(s) ==
    [ answer |-> <<"SAFETY_NOTICE">>,
      confidence |-> 10000,
      safety_escalation |-> << SafetyEscalation >> ]

safety_escalation_node(s) ==
    [ answer |-> <<"SAFETY_NOTICE">>,
      confidence |-> 0,
      safety_escalation |-> << SafetyEscalation >> ]

\* ------------------------------------------------------------------------
\* Up path nodes (nodes.py)
\* ------------------------------------------------------------------------

\* hashlib.md5(content.encode()).hexdigest()[:16].  Equal contents have equal
\* hashes; the contents of this model are taken to have no md5 collision.
content_hash(content) == <<"md5", content>>

fusion_weight_vector == 3000
fusion_weight_graph == 4000
fusion_weight_rerank == 3000

VectorFusedItem(item, source, weight) ==
    [ content |-> item.content,
      score |-> item.score * weight,
      source |-> source,
      doc_id |-> item.doc_id ]

GraphFusedItem(fact) ==
    [ content |-> fact.fact,
      score |-> fact.confidence * fusion_weight_graph,
      source |-> "graph",
      nodes |-> fact.source_nodes ]

\* One of the three loops of skip_fusion_node: an item is appended unless the
\* hash of its content is in seen_hashes (the hashes of the items fused so far).
RECURSIVE FuseItems(_, _)
FuseItems(fused, items) ==
    IF items = <<>> THEN fused
    ELSE LET item == Head(items)
             seen_hashes == {content_hash(fused[i].content) : i \in 1..Len(fused)}
         IN  IF content_hash(item.content) \notin seen_hashes
             THEN FuseItems(Append(fused, item), Tail(items))
             ELSE FuseItems(fused, Tail(items))

SkipFusion(skip_vector, skip_graph, skip_rerank) ==
    LET fromVector == [i \in 1..Len(skip_vector) |->
                          VectorFusedItem(skip_vector[i], "vector",
                                          fusion_weight_vector)]
        fromGraph == [i \in 1..Len(skip_graph) |-> GraphFusedItem(skip_graph[i])]
        fromRerank == [i \in 1..Len(skip_rerank) |->
                          VectorFusedItem(skip_rerank[i], "rerank",
                                          fusion_weight_rerank)]
        fused == FuseItems(FuseItems(FuseItems(<<>>, fromVector), fromGraph),
                           fromRerank)
    IN  Take(SortDesc(fused), 20)

skip_fusion_node(s) ==
    [ fused_evidence |-> SkipFusion(s.skip_vector, s.skip_graph, s.skip_rerank),
      stage_timings |-> s.stage_timings \cup {"skip_fusion"} ]

\* Mutant: a second synthesis of a run rates its answer higher.
answer_synthesizer_node_RetryRaisesConfidence(s, response) ==
    [ answer |-> response,
      confidence |-> Min(9500, Len(s.fused_evidence) * 1000
                                 + (IF s.answer # <<>> THEN 1000 ELSE 0)),
      stage_timings |-> s.stage_timings \cup {"answer_synthesizer"} ]

\* response: the content of the language model's completion
answer_synthesizer_node(s, response) ==
    [ answer |-> response,
      confidence |-> Min(9500, Len(s.fused_evidence) * 1000),
      stage_timings |-> s.stage_timings \cup {"answer_synthesizer"} ]

citation_generator_node(s) ==
    [ citations |-> IF s.evidence_pack # <<>>
                    THEN s.evidence_pack[1].citations ELSE <<>>,
      stage_timings |-> s.stage_timings \cup {"citation_generator"} ]

hallucination_phrases ==
    {"i think", "probably", "might be", "i assume", "generally speaking",
     "in my experience"}

\* any(<bool>) raises TypeError: the safety check of guardrails_node raises
\* whenever it is reached, that is whenever the pack holds a safety rule.
GuardrailsRaises(s) ==
    s.evidence_pack # <<>> /\ s.evidence_pack[1].safety_rules # <<>>

\* Mutant: the disclaimer also lowers the confidence of the answer.
guardrails_node_LowersConfidence(s) ==
    LET hedged == \E phrase \in hallucination_phrases : InAnswer(phrase, s.answer)
    IN  [ answer |-> IF hedged THEN Append(s.answer, "DISCLAIMER") ELSE s.answer,
          confidence |-> IF hedged THEN s.confidence \div 2 ELSE s.confidence,
          stage_timings |-> s.stage_timings \cup {"guardrails"} ]

\* Mutant: an answer that speaks of safety is escalated by guardrails.
guardrails_node_Escalates(s) ==
    LET answer == IF \E phrase \in hallucination_phrases : InAnswer(phrase, s.answer)
                  THEN Append(s.answer, "DISCLAIMER") ELSE s.answer
    IN  IF InAnswer("safety", s.answer)
        THEN [ answer |-> answer,
               safety_escalation |-> <<SafetyEscalation>>,
               stage_timings |-> s.stage_timings \cup {"guardrails"} ]
        ELSE [ answer |-> answer,
               stage_timings |-> s.stage_timings \cup {"guardrails"} ]

guardrails_node(s) ==
    LET answer == IF \E phrase \in hallucination_phrases : InAnswer(phrase, s.answer)
                  THEN Append(s.answer, "DISCLAIMER") ELSE s.answer
    IN  [ answer |-> answer,
          stage_timings |-> s.stage_timings \cup {"guardrails"} ]

\* ------------------------------------------------------------------------
\* The live pipeline (graphrag/retrieval): reranker.py, pipeline.py
\* ------------------------------------------------------------------------

\* str(chunk_id): the candidates of run_full_retrieval carry their chunk id
\* as a str already, and str of a str is that str.
PyStr(v) == v

RankedChunk(candidate, final_score) ==
    [ chunk_id |-> PyStr(candidate.chunk_id),
      content |-> candidate.content,
      score |-> final_score,
      original_score |-> candidate.score ]

\* 0.4 * original_score + 0.6 * relevance_score
FinalScore(original_score, relevance_score) ==
    (4 * original_score + 6 * relevance_score) \div 10

\* Reranker.rerank.  relevance: the answers of _score_relevance, one for each
\* of the first twenty candidates.
Rerank(candidates, relevance, top_k) ==
    IF candidates = <<>> THEN <<>>
    ELSE LET head == Take(candidates, 20)
             reranked == [i \in 1..Len(head) |->
                             RankedChunk(head[i],
                                         FinalScore(head[i].score, relevance[i]))]
         IN  Take(SortDesc(reranked), top_k)

FusedEntry(content, source, weight) ==
    [ content |-> content, source |-> source, weight |-> weight ]

\* One of the three loops of stage 5: an entry is appended unless its content
\* is in seen_content (the contents of the entries so far).
RECURSIVE FuseContents(_, _, _, _)
FuseContents(fused_evidence, contents, source, weight) ==
    IF contents = <<>> THEN fused_evidence
    ELSE LET content == Head(contents)
             seen_content == {fused_evidence[i].content :
                                 i \in 1..Len(fused_evidence)}
         IN  IF content \notin seen_content
             THEN FuseContents(Append(fused_evidence,
                                      FusedEntry(content, source, weight)),
                               Tail(contents), source, weight)
             ELSE FuseContents(fused_evidence, Tail(contents), source, weight)

\* Stage 5 of run_full_retrieval: graph facts, then reranked chunks, then
\* vector results; chunk contents are cut to 300 characters.
ContextFusion(skip_graph, skip_rerank, skip_vector) ==
    LET facts == [i \in 1..Len(skip_graph) |-> skip_graph[i].fact]
        reranked == [i \in 1..Len(skip_rerank) |-> Take(skip_rerank[i].content, 3)]
        vectors == [i \in 1..Len(skip_vector) |-> Take(skip_vector[i].content, 3)]
        withGraph == FuseContents(<<>>, facts, "graph", 4000)
        withRerank == FuseContents(withGraph, reranked, "rerank", 3500)
    IN  FuseContents(withRerank, vectors, "vector", 2500)

\* The sources of a result: the first five reranked chunks, their text cut to
\* 200 characters and "..." when it was longer
Sources(reranked) ==
    [i \in 1..Min(5, Len(reranked)) |->
        [ chunk_id |-> reranked[i].chunk_id,
          text |-> IF Len(reranked[i].content) > 2
                   THEN Take(reranked[i].content, 2) \o <<"...">>
                   ELSE reranked[i].content,
          score |-> reranked[i].score ]]

\* min(len(facts) / 10, 1.0)
GraphCoverage(facts) == Min(Len(facts) * 1000, 10000)

\* 0.3 * avg_vector_score + 0.4 * avg_rerank_score + 0.3 * graph_coverage,
\* each average the sum of the first five scores divided by 5 (rounded down
\* to 1/10000 here)
OverallConfidence(vector_candidates, reranked, facts) ==
    LET vector_sum ==
            IF vector_candidates # <<>>
            THEN SumSeq([i \in 1..Min(5, Len(vector_candidates)) |->
                            vector_candidates[i].score])
            ELSE 0
        rerank_sum ==
            IF reranked # <<>>
            THEN SumSeq([i \in 1..Min(5, Len(reranked)) |-> reranked[i].score])
            ELSE 0
    IN  (3 * vector_sum + 4 * rerank_sum + 15 * GraphCoverage(facts)) \div 50

RetrievalResult(answer, sources, intent, confidence, graph_facts) ==
    [ answer |-> answer, sources |-> sources, intent |-> intent,
      confidence |-> confidence, graph_facts |-> graph_facts ]

\* run_full_retrieval from stage 4 on: intent, vector_candidates and facts are
\* what stages 1 to 3 produced, relevance the answers of _score_relevance and
\* answer the content of the completion of stage 6 (whose prompt is built
\* from the fused evidence).
run_full_retrieval(intent, vector_candidates, facts, relevance, answer) ==
    LET reranked == Rerank(vector_candidates, relevance, 10)
        skip_vector == Take(vector_candidates, 5)
        skip_graph == Take(facts, 10)
        skip_rerank == [i \in 1..Min(5, Len(reranked)) |->
                           [ content |-> reranked[i].content,
                             score |-> reranked[i].score,
                             chunk_id |-> reranked[i].chunk_id ]]
        fused_evidence == ContextFusion(skip_graph, skip_rerank, skip_vector)
    IN  RetrievalResult(answer, Sources(reranked), intent,
                        OverallConfidence(vector_candidates, reranked, facts),
                        [i \in 1..Min(10, Len(facts)) |-> facts[i].fact])

\* The graph store as GraphExpander.expand queries it.  The entities a chunk
\* mentions (LIMIT 5), with their labels:
MentionedEntity(id, label) ==
    [entity |-> [id |-> id, name |-> id], labels |-> <<label>>]

ChunkMentions(chunk_id) ==
    CASE chunk_id = "k1" -> << MentionedEntity("T-500", "Asset"),
                               MentionedEntity("T-501", "Asset") >>
      [] chunk_id = "k2" -> << MentionedEntity("T-500", "Asset") >>
      [] chunk_id = "k3" -> << MentionedEntity("T-502", "Asset"),
                               MentionedEntity("T-503", "Asset") >>
      [] chunk_id = "k4" -> << MentionedEntity("V-201", "Asset") >>
      [] chunk_id = "k6" -> << MentionedEntity("T-504", "Asset") >>
      [] OTHER -> <<>>

Connection(rel_type, connected_label, connected_id, connected_name) ==
    [ rel_type |-> rel_type, connected_label |-> connected_label,
      connected_id |-> connected_id, connected_name |-> connected_name ]

\* The rows of the 1-hop traversal of an entity (LIMIT 10): a tank has ten
\* components; the valve has its seal twice (two relationships), a chunk and
\* a location
Connections(entity_id) ==
    IF entity_id \in {"T-500", "T-501", "T-502", "T-503", "T-504"}
    THEN [j \in 1..10 |->
             Connection("HAS_COMPONENT", "Component", ProcedureId(j),
                        ProcedureId(j))]
    ELSE IF entity_id = "V-201"
    THEN << Connection("HAS_COMPONENT", "Component", "C-7", "seal"),
            Connection("HAS_COMPONENT", "Component", "C-7", "seal"),
            Connection("HAS_COMPONENT", "Chunk", "k4", "k4"),
            Connection("LOCATED_AT", "Location", "L-1", "unit 2") >>
    ELSE <<>>

\* The rows of the Role-Person traversal of an asset (LIMIT 5)
ResponsiblePeople(asset_id) ==
    IF asset_id = "V-201"
    THEN << [ person_name |-> "Ana", role_name |-> "Technician",
              person_id |-> "H-1", role_id |-> "O-1" ] >>
    ELSE <<>>

\* facts.append({...}) of the people traversal
PeopleFacts(entity) ==
    LET people_results == ResponsiblePeople(entity.id)
    IN  [i \in 1..Len(people_results) |->
            [ fact |-> << people_results[i].person_name,
                          people_results[i].role_name,
                          "is responsible for", entity.name >>,
              source_nodes |-> << people_results[i].person_id,
                                  people_results[i].role_id, entity.id >>,
              confidence |-> 9500,
              hops |-> 2 ]]

\* The facts kept of a list: a fact whose text an earlier fact of the list
\* has is dropped
RECURSIVE UniqueFactsFrom(_, _)
UniqueFactsFrom(unique_facts, facts) ==
    IF facts = <<>> THEN unique_facts
    ELSE LET seen_fact_texts == {unique_facts[i].fact :
                                    i \in 1..Len(unique_facts)}
         IN  IF Head(facts).fact \notin seen_fact_texts
             THEN UniqueFactsFrom(Append(unique_facts, Head(facts)), Tail(facts))
             ELSE UniqueFactsFrom(unique_facts, Tail(facts))

UniqueFacts(facts) == UniqueFactsFrom(<<>>, facts)

\* The facts of the 1-hop traversal of one entity: rows to a Chunk are
\* skipped, and rows whose fact text was seen for this entity
ConnectionFacts(entity) ==
    LET connections == Connections(entity.id)
        helpful == SelectSeq(connections,
                             LAMBDA conn : conn.connected_label # "Chunk")
    IN  UniqueFacts([i \in 1..Len(helpful) |->
                        [ fact |-> << entity.name,
                                      RelationText(helpful[i].rel_type),
                                      helpful[i].connected_name >>,
                          source_nodes |-> << entity.id,
                                              helpful[i].connected_id >>,
                          confidence |-> 9000,
                          hops |-> 1 ]])

\* The facts appended while the entities of one chunk are processed.  failing:
\* the ids of the entities whose 1-hop traversal raises; the exception leaves
\* the loop over the chunk's entities.
RECURSIVE MentionsFacts(_, _, _)
MentionsFacts(entities, intent, failing) ==
    IF entities = <<>> THEN <<>>
    ELSE LET entity == Head(entities).entity
             entity_label == Head(entities).labels[1]
             people == IF intent = "people" /\ entity_label = "Asset"
                       THEN PeopleFacts(entity) ELSE <<>>
         IN  IF entity.id = ""
             THEN MentionsFacts(Tail(entities), intent, failing)
             ELSE IF entity.id \in failing
             THEN people
             ELSE people \o ConnectionFacts(entity)
                         \o MentionsFacts(Tail(entities), intent, failing)

\* What the first five seed chunks append to facts; a chunk whose MENTIONS
\* query raises (its id is in failing) appends nothing
DiscoveredFacts(seed_chunks, intent, failing) ==
    LET seeds == Take(seed_chunks, 5)
    IN  FlattenSeq([i \in 1..Len(seeds) |->
                       IF seeds[i] \in failing THEN <<>>
                       ELSE MentionsFacts(ChunkMentions(seeds[i]), intent,
                                          failing)])

\* GraphExpander.expand: the facts of the returned GraphContext and its
\* total_hops
expand(seed_chunks, intent, max_hops, failing) ==
    [ facts |-> Take(UniqueFacts(DiscoveredFacts(seed_chunks, intent, failing)),
                     30),
      total_hops |-> max_hops ]

\* ------------------------------------------------------------------------
\* The LangGraph run: one action per node, the edges of create_retrieval_graph
\* ------------------------------------------------------------------------

HarnessIdle == fn = "none" /\ arg = <<>> /\ out = <<>>

Sessions == {"s1", "s2"}

\* A call that has not begun; one that has returned or raised differs in
\* status and failed_at, its query and session gone with its frame
IdleCall ==
    [ status |-> "idle", session |-> "", query |-> <<>>,
      enhanced_query |-> [context |-> <<>>, question |-> <<>>],
      failed_at |-> "none" ]

SessionIdle ==
    /\ session_store = [s \in Sessions |-> <<>>]
    /\ calls = [c \in 1..MaxRuns |-> IdleCall]
    /\ begun = 0
    /\ drivers = {}

ResolverIdle == graph = {} /\ issued = 0 /\ resolutions = <<>>

Init ==
    /\ pc = "query_normalizer"
    /\ state \in {InitialState(q) : q \in Queries}
    /\ visited = {}
    /\ HarnessIdle
    /\ ResolverIdle
    /\ SessionIdle

\* A node runs: its update is merged into the state and the edge is followed.
Step(node, update, next) ==
    /\ pc = node
    /\ state' = ApplyUpdate(state, update)
    /\ visited' = visited \cup {node}
    /\ pc' = next
    /\ UNCHANGED <<harnessVars, resolverVars, sessionVars>>

QueryNormalizer ==
    Step("query_normalizer", query_normalizer_node(state), "intent_classifier")

IntentClassifier ==
    Step("intent_classifier", intent_classifier_node(state), "vector_recall")

VectorRecall ==
    \E results \in VectorResults :
        Step("vector_recall", vector_recall_node(state, results),
             "entity_extractor")

EntityExtractor ==
    \E extraction \in {[ok |-> TRUE, entities |-> e] : e \in LlmExtractions}
                      \cup {[ok |-> FALSE, entities |-> <<>>]} :
        Step("entity_extractor", entity_extractor_node(state, extraction),
             "graph_expander")

GraphExpander ==
    \E failing \in SUBSET (1..Len(state.extracted_entities)) :
        Step("graph_expander", graph_expander_node(state, failing), "reranker")

\* The node awaits get_node_by_id and traverse_from_node for one entity after
\* the other, with no timeout: while an await has not returned the node is
\* at that await, and it stays there when the call never returns.
GraphExpanderAwaits ==
    /\ pc = "graph_expander"
    /\ Take(state.extracted_entities, 10) # <<>>
    /\ pc' = "awaiting_traversal"
    /\ UNCHANGED <<state, visited, harnessVars, resolverVars, sessionVars>>

Reranker ==
    Step("reranker", reranker_node(state), "evidence_assembler")

EvidenceAssembler ==
    LET update == evidence_assembler_node(state)
    IN  Step("evidence_assembler", update,
             SufficiencyEdge(evidence_sufficiency_check(ApplyUpdate(state, update))))

SkipFusionNode ==
    Step("skip_fusion", skip_fusion_node(state), "answer_synthesizer")

AnswerSynthesizer ==
    \E response \in LlmAnswers :
        Step("answer_synthesizer", answer_synthesizer_node(state, response),
             "citation_generator")

CitationGenerator ==
    Step("citation_generator", citation_generator_node(state), "guardrails")

Guardrails ==
    /\ ~GuardrailsRaises(state)
    /\ LET update == guardrails_node(state)
       IN  Step("guardrails", update,
                GuardrailEdge(guardrail_check(ApplyUpdate(state, update))))

GuardrailsRaise ==
    /\ pc = "guardrails"
    /\ GuardrailsRaises(state)
    /\ pc' = "raised"
    /\ visited' = visited \cup {"guardrails"}
    /\ UNCHANGED <<state, harnessVars, resolverVars, sessionVars>>

InsufficientEvidence ==
    Step("insufficient_evidence", insufficient_evidence_node(state), "END")

SafetyEscalationNode ==
    Step("safety_escalation", safety_escalation_node(state), "END")

Next ==
    \/ QueryNormalizer
    \/ IntentClassifier
    \/ VectorRecall
    \/ EntityExtractor
    \/ GraphExpander
    \/ GraphExpanderAwaits
    \/ Reranker
    \/ EvidenceAssembler
    \/ SkipFusionNode
    \/ AnswerSynthesizer
    \/ CitationGenerator
    \/ Guardrails
    \/ GuardrailsRaise
    \/ InsufficientEvidence
    \/ SafetyEscalationNode

Spec == Init /\ [][Next]_vars

NodeNames ==
    { "query_normalizer", "intent_classifier", "vector_recall",
      "entity_extractor", "graph_expander", "reranker", "evidence_assembler",
      "skip_fusion", "answer_synthesizer", "citation_generator", "guardrails",
      "insufficient_evidence", "safety_escalation" }

\* The executor moves on while the run has not ended.  Every step of Next
\* that completes a node is an Advance step and such a step is enabled exactly
\* when pc is a node, so this is weak fairness of the completing steps, stated
\* on pc alone.  An await that never returns is not forced to return.
Advance ==
    /\ pc \in NodeNames
    /\ pc' \in NodeNames \cup {"END", "raised"}
    /\ pc' # pc

FairSpec == Spec /\ WF_pc(Advance)

\* ------------------------------------------------------------------------
\* Calls of single functions: Init draws the function and its input, the
\* call's action applies it.
\* ------------------------------------------------------------------------

PipelineIdle ==
    pc = "idle" /\ state = InitialState(<<>>) /\ visited = {}

Return(result) ==
    /\ out = <<>>
    /\ out' = <<result>>
    /\ UNCHANGED <<fn, arg, pipelineVars, resolverVars, sessionVars>>

\* A passage (a VectorSearchResult) of a document
Passage(chunk_id, doc_id, content, score) ==
    [ chunk_id |-> chunk_id, doc_id |-> doc_id, content |-> content,
      score |-> score, metadata |-> [doc_type |-> DocTypeOf(doc_id)] ]

CallDocIds == {"D1", "D2", "D3"}

\* The lists of up to n passages over the documents and the given contents
PassageLists(n, contents) ==
    { [i \in 1..k |-> Passage(i, d[i], c[i], 8000)] :
      <<k, d, c>> \in UNION { {k} \X [1..k -> CallDocIds] \X [1..k -> contents] :
                              k \in 0..n } }

LotoFact == GraphFact(PathsFrom("V-201")[1])

\* evidence_assembler_node is called on the reranked passages
AssemblerInputs ==
    { [ reranked_evidence |-> passages, graph_facts |-> <<>>,
        stage_timings |-> {"start"} ] :
      passages \in PassageLists(MaxPassages, {<<"b_plain">>}) }

\* evidence_sufficiency_check is called on a state without a pack or with the
\* pack evidence assembly builds
GateQueries == Queries \cup { <<"steps", "skipped">> }

GatePacks ==
    { <<>> } \cup
    { << EvidencePack(passages, [i \in 1..n |-> LotoFact]) >> :
      passages \in PassageLists(MaxGateItems, {<<"b_plain">>, <<"b_lockout">>}),
      n \in 0..MaxGateItems }

GateInputs ==
    { [query |-> q, evidence_pack |-> p] : q \in GateQueries, p \in GatePacks }

\* guardrail_check is called on the state after guardrails
GuardrailInputs ==
    { [ safety_escalation |-> e, confidence |-> c, citations |-> cs ] :
      e \in { <<>>, << SafetyEscalation >> },
      c \in { 0, 2000, 2999, 3000, 3001, 9500 },
      cs \in { <<>>, << Citation(Passage(1, "D1", <<"b_plain">>, 8000)) >> } }

\* Texts that occur both as a chunk's content and as a graph fact
FusionContents == { <<"c1">>, <<"c2">> }

\* skip_fusion_node is called on the three skip buffers of a state
NodeFusionInputs ==
    { [ skip_vector |-> [i \in 1..Len(v) |-> Passage(i, "D1", v[i], 8000)],
        skip_graph |-> [i \in 1..Len(g) |->
                          [fact |-> g[i], source_nodes |-> <<"V-201">>,
                           confidence |-> 9000]],
        skip_rerank |-> [i \in 1..Len(r) |-> Passage(i, "D1", r[i], 8500)],
        stage_timings |-> {"start"} ] :
      v \in SeqsUpTo(FusionContents, MaxFuse),
      g \in SeqsUpTo(FusionContents, MaxFuse),
      r \in SeqsUpTo(FusionContents, MaxFuse) }

\* chunk ids of the live pipeline: str(point id)
ChunkName(i) ==
    << "k1", "k2", "k3", "k4", "k5", "k6", "k7", "k8", "k9", "k10", "k11",
       "k12", "k13", "k14", "k15", "k16" >>[i]

\* A vector candidate of run_full_retrieval
Candidate(i, content, score) ==
    [ chunk_id |-> ChunkName(i), content |-> content, score |-> score,
      document_id |-> "D1" ]

\* stage 5 of run_full_retrieval is reached with the three skip buffers
ContextFusionInputs ==
    { [ skip_vector |-> [i \in 1..Len(v) |-> Candidate(i, v[i], 8000)],
        skip_graph |-> [i \in 1..Len(g) |-> [fact |-> g[i]]],
        skip_rerank |-> [i \in 1..Len(r) |->
                           [content |-> r[i], score |-> 8500,
                            chunk_id |-> ChunkName(i)]] ] :
      v \in SeqsUpTo(FusionContents, MaxFuse),
      g \in SeqsUpTo(FusionContents, MaxFuse),
      r \in SeqsUpTo(FusionContents, MaxFuse) }

\* reranker_node is called on the candidates of a recall: equal similarity,
\* documents of two authorities
RerankerNodeInputs ==
    { [ vector_candidates |->
            [i \in 1..Len(d) |-> Passage(i, d[i], <<"b_plain">>, 8000)],
        graph_facts |-> <<>>,
        stage_timings |-> {"start"} ] :
      d \in SeqsUpTo({"D1", "D2"}, MaxRerank) }

\* Reranker.rerank is called on the candidates of a recall, top_k = 10; the
\* language model scores each candidate 0.5 or 0.9
RerankInputs ==
    { [ candidates |-> [i \in 1..Len(rel) |-> Candidate(i, <<"b_plain">>, 8000)],
        relevance |-> rel,
        top_k |-> 10 ] :
      rel \in SeqsUpTo({5000, 9000}, MaxRerank) }

CallSkipFusion ==
    /\ fn = "skip_fusion_node"
    /\ Return(skip_fusion_node(arg))

CallContextFusion ==
    /\ fn = "context_fusion"
    /\ Return(ContextFusion(arg.skip_graph, arg.skip_rerank, arg.skip_vector))

CallRerankerNode ==
    /\ fn = "reranker_node"
    /\ Return(reranker_node(arg))

CallRerank ==
    /\ fn = "Reranker.rerank"
    /\ Return(Rerank(arg.candidates, arg.relevance, arg.top_k))

CallEvidenceAssembler ==
    /\ fn = "evidence_assembler_node"
    /\ Return(evidence_assembler_node(arg))

CallSufficiencyCheck ==
    /\ fn = "evidence_sufficiency_check"
    /\ Return(evidence_sufficiency_check(arg))

CallGuardrailCheck ==
    /\ fn = "guardrail_check"
    /\ Return(guardrail_check(arg))

\* ------------------------------------------------------------------------
\* The entity resolver (graphrag/ingestion/resolver.py)
\* ------------------------------------------------------------------------

merge_threshold == 8500
link_threshold == 7000
embedding_weight == 6
context_weight == 4

\* An extracted mention: its name as written and its EntityType value
Mention(name, type) == [name |-> name, type |-> type]

Mentions ==
    { Mention("P-101", "ASSET"), Mention("p 101", "ASSET"),
      Mention("P-102", "ASSET"), Mention("PPE", "TERM") }

\* The name normalize computes: lowercase, abbreviations expanded, special
\* characters removed, whitespace collapsed, and for an ASSET the tag
\* rewritten as PREFIX-NUMBER[SUFFIX] in upper case.
CanonicalName(name, type) ==
    CASE name = "P-101" -> IF type = "ASSET" THEN "P-101" ELSE "p-101"
      [] name = "p 101" -> IF type = "ASSET" THEN "P-101" ELSE "p 101"
      [] name = "P-102" -> IF type = "ASSET" THEN "P-102" ELSE "p-102"
      [] name = "PPE" -> "personal protective equipment"
      [] OTHER -> name

\* embed_passage: the embedding of a text, a function of the text
Embedding(text) == <<"e5", text>>

normalize(entity) ==
    LET name == CanonicalName(entity.name, entity.type)
    IN  [ canonical_name |-> name,
          original_name |-> entity.name,
          type |-> entity.type,
          embedding |-> << Embedding(name) >> ]

\* An entity node of the graph store; embedding is <<>> when the node has none
EntityNode(id, label, canonical_name, embedding) ==
    [ id |-> id, label |-> label, canonical_name |-> canonical_name,
      embedding |-> embedding ]

entity_labels ==
    { "Asset", "Component", "FailureMode", "Symptom", "Procedure", "Tool",
      "Material", "SafetyRule", "Term", "Standard", "Location", "Manufacturer" }

\* apoc.text.levenshteinDistance on the names of the model
LevenshteinDistance(a, b) ==
    IF a = b THEN 0
    ELSE IF {a, b} = {"P-101", "P-102"} THEN 1
    ELSE IF {a, b} = {"P-101", "P-201"} THEN 1
    ELSE IF {a, b} = {"P-102", "P-201"} THEN 2
    ELSE 9

NameLength(name) == IF name \in {"P-101", "P-102", "P-201"} THEN 5 ELSE 29

\* The nodes a query matched, as a list in the order of their node numbers
\* (the stores of the model hold no two nodes of one canonical name)
RECURSIVE NodeList(_)
NodeList(nodes) ==
    IF nodes = {} THEN <<>>
    ELSE LET first == CHOOSE n \in nodes : \A m \in nodes : n.id[2] <= m.id[2]
         IN  <<first>> \o NodeList(nodes \ {first})

CandidateRow(node, match_type, score) ==
    [ id |-> node.id, name |-> node.canonical_name, type |-> node.label,
      embedding |-> node.embedding, match_type |-> match_type, score |-> score ]

\* Mutant: no early return on an exact match, the fuzzy matches follow it.
find_candidates_NoEarlyReturn(nodes, normalized, limit, apoc_available) ==
    LET name == normalized.canonical_name
        exact == NodeList({n \in nodes : /\ n.canonical_name = name
                                        /\ n.label \in entity_labels})
        near == NodeList({n \in nodes :
                            /\ n.label \in entity_labels
                            /\ LevenshteinDistance(n.canonical_name, name) < 3})
        byDistance == SortDesc([i \in 1..Len(near) |->
                         [node |-> near[i],
                          score |-> 0 - LevenshteinDistance(near[i].canonical_name,
                                                            name)]])
        fuzzy == [i \in 1..Len(byDistance) |->
                    CandidateRow(byDistance[i].node, "fuzzy",
                                 10000 - (10000 * (0 - byDistance[i].score))
                                           \div NameLength(name))]
        exactRows == IF exact # <<>>
                     THEN << CandidateRow(exact[1], "exact", 10000) >> ELSE <<>>
    IN  Take(exactRows \o (IF apoc_available THEN fuzzy ELSE <<>>), limit)

\* The fuzzy query is issued when the exact query matched no node
FuzzyQueryIssued(nodes, normalized) ==
    ~ \E n \in nodes : /\ n.canonical_name = normalized.canonical_name
                       /\ n.label \in entity_labels

\* find_candidates: the exact match alone when there is one, else the fuzzy
\* matches, none when the fuzzy query raises (apoc_available is FALSE).
find_candidates(nodes, normalized, limit, apoc_available) ==
    LET name == normalized.canonical_name
        exact == NodeList({n \in nodes : /\ n.canonical_name = name
                                        /\ n.label \in entity_labels})
        near == NodeList({n \in nodes :
                            /\ n.label \in entity_labels
                            /\ LevenshteinDistance(n.canonical_name, name) < 3})
        byDistance == SortDesc([i \in 1..Len(near) |->
                         [node |-> near[i],
                          score |-> 0 - LevenshteinDistance(near[i].canonical_name,
                                                            name)]])
        fuzzy == [i \in 1..Len(byDistance) |->
                    CandidateRow(byDistance[i].node, "fuzzy",
                                 10000 - (10000 * (0 - byDistance[i].score))
                                           \div NameLength(name))]
    IN  IF exact # <<>>
        THEN Take(<< CandidateRow(exact[1], "exact", 10000) >>, limit)
        ELSE IF apoc_available THEN Take(fuzzy, limit) ELSE <<>>

\* cosine_similarity on the embeddings of the model
CosineSimilarity(e1, e2) ==
    IF e1 = e2 THEN 10000
    ELSE IF {e1, e2} = {Embedding("P-101"), Embedding("P-102")} THEN 9200
    ELSE IF {e1, e2} = {Embedding("P-101"), Embedding("P-201")} THEN 8000
    ELSE 3000

compute_embedding_similarity(embedding1, embedding2) ==
    IF embedding1 = <<>> \/ embedding2 = <<>> THEN 0
    ELSE CosineSimilarity(embedding1[1], embedding2[1])

\* normalized["type"].value == candidate.get("type", ""): the value of the
\* EntityType ("ASSET") against the node's label ("Asset")
compute_context_similarity(normalized, candidate) ==
    LET score == IF normalized.type = candidate.type THEN 5000 ELSE 0
    IN  Min(score, 10000)

ResolvedEntity(id, normalized, entity) ==
    [ id |-> id, canonical_name |-> normalized.canonical_name,
      original_names |-> <<entity.name>>, type |-> entity.type,
      embedding |-> normalized.embedding ]

ResolutionResult(action, entity_id, canonical, link_to, link_type, confidence) ==
    [ action |-> action, entity_id |-> entity_id, canonical |-> canonical,
      link_to |-> link_to, link_type |-> link_type, confidence |-> confidence ]

\* Mutant: the first candidate decides, not the highest-scoring one.
ResolveWith_FirstCandidate(nodes, entity, new_id, apoc_available, w_embedding, w_context) ==
    LET normalized == normalize(entity)
        candidates == find_candidates(nodes, normalized, 5, apoc_available)
        created == ResolutionResult("CREATE", new_id,
                       << ResolvedEntity(new_id, normalized, entity) >>,
                       <<>>, <<>>, 10000)
        scored == [i \in 1..Len(candidates) |->
                     [ candidate |-> candidates[i],
                       score |->
                         (w_embedding
                            * compute_embedding_similarity(
                                  normalized.embedding, candidates[i].embedding)
                          + w_context
                            * compute_context_similarity(normalized, candidates[i]))
                         \div 10 ]]
        best == scored[1]
    IN  IF candidates = <<>> THEN created
        ELSE IF best.score >= merge_threshold
        THEN ResolutionResult("MERGE", best.candidate.id, <<>>, <<>>, <<>>,
                              best.score)
        ELSE IF best.score >= link_threshold
        THEN ResolutionResult("LINK", new_id,
                 << ResolvedEntity(new_id, normalized, entity) >>,
                 << best.candidate.id >>, << "RELATED_TO" >>, best.score)
        ELSE created

\* resolve of an EntityResolver built with the given weights.  new_id: the id
\* uuid4 returns if the call asks for one.
ResolveWith(nodes, entity, new_id, apoc_available, w_embedding, w_context) ==
    LET normalized == normalize(entity)
        candidates == find_candidates(nodes, normalized, 5, apoc_available)
        created == ResolutionResult("CREATE", new_id,
                       << ResolvedEntity(new_id, normalized, entity) >>,
                       <<>>, <<>>, 10000)
        scored == [i \in 1..Len(candidates) |->
                     [ candidate |-> candidates[i],
                       score |->
                         (w_embedding
                            * compute_embedding_similarity(
                                  normalized.embedding, candidates[i].embedding)
                          + w_context
                            * compute_context_similarity(normalized, candidates[i]))
                         \div 10 ]]
        best == SortDesc(scored)[1]
    IN  IF candidates = <<>> THEN created
        ELSE IF best.score >= merge_threshold
        THEN ResolutionResult("MERGE", best.candidate.id, <<>>, <<>>, <<>>,
                              best.score)
        ELSE IF best.score >= link_threshold
        THEN ResolutionResult("LINK", new_id,
                 << ResolvedEntity(new_id, normalized, entity) >>,
                 << best.candidate.id >>, << "RELATED_TO" >>, best.score)
        ELSE created

\* resolve of the default EntityResolver()
resolve(nodes, entity, new_id, apoc_available) ==
    ResolveWith(nodes, entity, new_id, apoc_available, embedding_weight,
                context_weight)

\* str(uuid4()): an id no node and no earlier call has
Uuid(n) == <<"uuid", n>>

\* The graph stores a resolver runs against
GraphStores ==
    { {},
      { EntityNode(<<"node", 1>>, "Asset", "P-101", << Embedding("P-101") >>) },
      { EntityNode(<<"node", 1>>, "Asset", "P-101", <<>>) },
      { EntityNode(<<"node", 1>>, "Asset", "P-101", << Embedding("P-101") >>),
        EntityNode(<<"node", 2>>, "Term", "personal protective equipment",
                   << Embedding("personal protective equipment") >>) } }

ResolverInit ==
    /\ PipelineIdle
    /\ HarnessIdle
    /\ SessionIdle
    /\ graph \in GraphStores
    /\ issued = 0
    /\ resolutions = <<>>

\* One resolve call returns.  The call reads the graph and writes nothing.
Resolve ==
    /\ Len(resolutions) < MaxResolves
    /\ \E entity \in Mentions, apoc_available \in BOOLEAN :
          LET result == resolve(graph, entity, Uuid(issued + 1), apoc_available)
          IN  /\ resolutions' = Append(resolutions, [entity |-> entity, result |-> result])
              /\ issued' = IF result.action = "MERGE" THEN issued ELSE issued + 1
    /\ UNCHANGED <<graph, pipelineVars, harnessVars, sessionVars>>

ResolverNext == Resolve

ResolverSpec == ResolverInit /\ [][ResolverNext]_vars

\* ------------------------------------------------------------------------
\* The request handlers (graphrag/api): full_pipeline.py, main.py, chat.py
\* ------------------------------------------------------------------------

\* An exception a collaborator raises, and str(e)
PyException(type, message) == [type |-> type, message |-> message]

ExceptionStr(e) == e.message

Exceptions ==
    { PyException("ConnectError", "connection to 10.0.0.5:6333 refused"),
      PyException("TypeError", "'bool' object is not iterable"),
      PyException("AuthenticationError", "invalid api key gsk_live") }

\* What an awaited call does: it returns a value or raises
Returns(value) == [ok |-> TRUE, value |-> value]
Raises(e) == [ok |-> FALSE, error |-> e]

HTTPException(status_code, detail) ==
    [status_code |-> status_code, detail |-> detail]

HttpOk(body) == [status_code |-> 200, body |-> body]

\* POST /api/v1/full/.  retrieval: what run_full_retrieval does.
query_full_pipeline(request, retrieval) ==
    IF retrieval.ok
    THEN HttpOk([ message |-> retrieval.value.answer,
                  confidence |-> retrieval.value.confidence,
                  session_id |-> request.session_id ])
    ELSE HTTPException(500, ExceptionStr(retrieval.error))

\* POST /api/v1/query, the handler named query.  retrieval: what run_retrieval does; audit: what
\* postgres.log_query does once the run has returned.
query_handler(request, retrieval, audit) ==
    IF ~retrieval.ok THEN HTTPException(500, ExceptionStr(retrieval.error))
    ELSE IF ~audit.ok THEN HTTPException(500, ExceptionStr(audit.error))
    ELSE HttpOk([ query |-> request.message,
                  answer |-> retrieval.value.answer,
                  confidence |-> retrieval.value.confidence ])

\* POST /api/v1/chat/.  generation: what the body of the handler (embedding,
\* vector search, completion) does.
chat(request, generation) ==
    IF generation.ok
    THEN HttpOk([ message |-> generation.value.answer,
                  session_id |-> request.session_id ])
    ELSE HTTPException(500, ExceptionStr(generation.error))

Requests ==
    { [message |-> q, session_id |-> sid] : q \in Queries, sid \in {"s1", "s2"} }

CallOutcomes ==
    { Returns([answer |-> a, confidence |-> c]) :
        a \in LlmAnswers, c \in {0, 2000, 9500} }
    \cup { Raises(e) : e \in Exceptions }

\* A request with what the awaited calls of its handler do; only the query
\* handler writes the audit record
HandlerInputs ==
    { [request |-> r, retrieval |-> o, audit |-> a] :
      r \in Requests, o \in CallOutcomes,
      a \in { Returns(<<>>) } \cup { Raises(e) : e \in Exceptions } }

CallQueryFullPipeline ==
    /\ fn = "query_full_pipeline"
    /\ Return(query_full_pipeline(arg.request, arg.retrieval))

CallQuery ==
    /\ fn = "query"
    /\ Return(query_handler(arg.request, arg.retrieval, arg.audit))

CallChat ==
    /\ fn = "chat"
    /\ Return(chat(arg.request, arg.retrieval))

\* ------------------------------------------------------------------------
\* Calls of the intent classifier
\* ------------------------------------------------------------------------

\* Queries about PPE: the safety query of test_full_pipeline, PPE with another
\* safety word, PPE followed by a question mark, and PPE alone
PpeQueries ==
    { <<"What", "PPE", "is", "required", "for", "working", "on", "valve",
        "V-201?">>,
      <<"PPE", "for", "lockout">>,
      <<"Which", "PPE?">>,
      <<"PPE">> }

\* intent_classifier_node is reached with the update of query_normalizer_node
\* applied to the initial state of the run
ClassifierInputs ==
    { ApplyUpdate(InitialState(q), query_normalizer_node(InitialState(q))) :
      q \in PpeQueries \cup Queries }

CallIntentClassifier ==
    /\ fn = "intent_classifier_node"
    /\ Return(intent_classifier_node(arg))

\* ------------------------------------------------------------------------
\* Calls of the access filter of vector recall
\* ------------------------------------------------------------------------

\* The values of ClassificationLevel in the order of the enumeration
ClassificationLevel == << "public", "internal", "confidential", "restricted" >>

\* a < b of two str: the order of their characters.  Of the four values
\* "confidential" < "internal" < "public" < "restricted".
StrLess(a, b) ==
    LET rank(v) == CASE v = "confidential" -> 1
                     [] v = "internal" -> 2
                     [] v = "public" -> 3
                     [] v = "restricted" -> 4
    IN  rank(a) < rank(b)

\* filters["classification"]: the user's level, then every level whose value
\* is less than the value of the user's level
ClassificationFilter(access_level) ==
    <<access_level>>
        \o SelectSeq(ClassificationLevel, LAMBDA l : StrLess(l, access_level))

\* MatchAny(any=value) on the classification of a stored chunk
MatchAny(value, any) == value \in Range(any)

\* The chunks of the collection, one of each classification
StoredChunks ==
    { [chunk_id |-> "c_public", classification |-> "public"],
      [chunk_id |-> "c_internal", classification |-> "internal"],
      [chunk_id |-> "c_confidential", classification |-> "confidential"],
      [chunk_id |-> "c_restricted", classification |-> "restricted"] }

RecallFilterInputs ==
    { [access_level |-> a, chunks |-> c] :
        a \in Range(ClassificationLevel), c \in SUBSET StoredChunks }

\* vector_recall_node builds the filter and the search applies it
CallVectorRecallFilter ==
    /\ fn = "vector_recall_node"
    /\ LET classification == ClassificationFilter(arg.access_level)
       IN  Return([ classification |-> classification,
                    results |-> {c \in arg.chunks :
                                    MatchAny(c.classification, classification)} ])

\* ------------------------------------------------------------------------
\* Calls of graph expansion
\* ------------------------------------------------------------------------

\* The seed chunks of an expansion: up to two of four chunks, three chunks
\* that mention five entities, or six chunks
SeedLists ==
    SeqsUpTo({"k1", "k2", "k3", "k4"}, 2)
    \cup { <<"k1", "k3", "k4">>, <<"k1", "k2", "k3", "k4", "k5", "k6">> }

ExpandInputs ==
    { [ seed_chunks |-> c, intent |-> i, failing |-> f ] :
      c \in SeedLists, i \in {"procedure", "people"},
      f \in SUBSET {"k1", "T-500", "V-201"} }

\* The extracted entities of an expansion: up to MaxEntities; the first and
\* the second the valve, the tank or a name not in the graph, the tenth the
\* tank, the eleventh the valve, the others not in the graph
ExpanderEntities ==
    { [i \in 1..n |->
          ExtractedEntity(CASE i = 1 -> x
                            [] i = 2 -> y
                            [] i = 10 -> "T-500"
                            [] i = 11 -> "V-201"
                            [] OTHER -> "X-9",
                          "ASSET", 9000)] :
      n \in 0..MaxEntities,
      x \in {"V-201", "T-500", "X-9"}, y \in {"V-201", "T-500", "X-9"} }

\* graph_expander_node is reached with the intent and the entities; failing:
\* the positions of the entities whose traversal raises
ExpanderNodeInputs ==
    { [ intent |-> i, extracted_entities |-> e, stage_timings |-> {"start"},
        failing |-> f ] :
      i \in {"PROCEDURE", "SAFETY"}, e \in ExpanderEntities,
      f \in SUBSET {1, 2, 10, 11} }

CallGraphExpanderNode ==
    /\ fn = "graph_expander_node"
    /\ Return(graph_expander_node(arg, arg.failing))

CallExpand ==
    /\ fn = "GraphExpander.expand"
    /\ Return(expand(arg.seed_chunks, arg.intent, 2, arg.failing))

\* ------------------------------------------------------------------------
\* Calls of answer synthesis and of the live pipeline
\* ------------------------------------------------------------------------

\* answer_synthesizer_node is reached with the fused evidence of skip fusion
SynthesizerInputs ==
    { [ fused_evidence |->
            [i \in 1..n |-> [ content |-> <<"c1", ChunkName(i)>>,
                              score |-> 3000, source |-> "vector",
                              doc_id |-> "D1" ]],
        stage_timings |-> {"start"},
        response |-> r ] :
      n \in 0..MaxSynth, r \in LlmAnswers }

\* The similarity Qdrant reports for a point: a cosine, which may be negative
SearchScores == { 8000, -2000 }

\* The "score" of the JSON the relevance scorer's completion carries: 0.0,
\* 0.9, or 85 (a percentage); float() takes each
RelevanceReplies == { 0, 9000, 850000 }

\* The facts of an expansion: none, one, or ten
FactCounts == { 0, 1, 10 }

RetrievalInputs ==
    { [ intent |-> "procedure",
        vector_candidates |->
            [i \in 1..Len(v) |-> Candidate(i, <<"b_plain">>, v[i])],
        facts |-> [i \in 1..n |-> [fact |-> <<"fact", i>>]],
        relevance |-> rel,
        answer |-> <<"a_plain">> ] :
      v \in SeqsUpTo(SearchScores, MaxCand),
      rel \in SeqsUpTo(RelevanceReplies, MaxCand),
      n \in FactCounts }

CallAnswerSynthesizer ==
    /\ fn = "answer_synthesizer_node"
    /\ Return(answer_synthesizer_node(arg, arg.response))

CallRunFullRetrieval ==
    /\ fn = "run_full_retrieval"
    /\ Return(run_full_retrieval(arg.intent, arg.vector_candidates, arg.facts,
                                 arg.relevance, arg.answer))

\* ------------------------------------------------------------------------
\* The specification of the calls of single functions
\* ------------------------------------------------------------------------

\* The weights an EntityResolver is built with: the defaults, or the
\* embedding similarity alone
ResolverWeights == { <<embedding_weight, context_weight>>, <<10, 0>> }

\* Stores with nodes near the mention P-101: three that do not hold it, one
\* that holds it
NearStores ==
    { { EntityNode(<<"node", 1>>, "Asset", "P-101", << Embedding("P-101") >>),
        EntityNode(<<"node", 2>>, "Asset", "P-102", << Embedding("P-102") >>) },
      { EntityNode(<<"node", 1>>, "Asset", "P-201", << Embedding("P-201") >>) },
      { EntityNode(<<"node", 1>>, "Asset", "P-102", << Embedding("P-102") >>) },
      { EntityNode(<<"node", 1>>, "Asset", "P-201", << Embedding("P-201") >>),
        EntityNode(<<"node", 2>>, "Asset", "P-102", << Embedding("P-102") >>) } }

\* resolve is called on a mention, against a store
ResolveInputs ==
    { [ nodes |-> nodes, entity |-> entity, weights |-> w,
        apoc_available |-> apoc ] :
      nodes \in GraphStores \cup NearStores, entity \in Mentions,
      w \in ResolverWeights, apoc \in BOOLEAN }

CallResolve ==
    /\ fn = "EntityResolver.resolve"
    /\ Return(ResolveWith(arg.nodes, arg.entity, Uuid(1), arg.apoc_available,
                          arg.weights[1], arg.weights[2]))

FnInit ==
    /\ PipelineIdle
    /\ ResolverIdle
    /\ SessionIdle
    /\ out = <<>>
    /\ \/ fn = "evidence_assembler_node" /\ arg \in AssemblerInputs
       \/ fn = "evidence_sufficiency_check" /\ arg \in GateInputs
       \/ fn = "guardrail_check" /\ arg \in GuardrailInputs
       \/ fn = "skip_fusion_node" /\ arg \in NodeFusionInputs
       \/ fn = "context_fusion" /\ arg \in ContextFusionInputs
       \/ fn = "reranker_node" /\ arg \in RerankerNodeInputs
       \/ fn = "Reranker.rerank" /\ arg \in RerankInputs
       \/ fn = "EntityResolver.resolve" /\ arg \in ResolveInputs
       \/ fn = "query" /\ arg \in HandlerInputs
       \/ /\ fn \in {"query_full_pipeline", "chat"}
          /\ arg \in {h \in HandlerInputs : h.audit.ok}
       \/ fn = "answer_synthesizer_node" /\ arg \in SynthesizerInputs
       \/ fn = "GraphExpander.expand" /\ arg \in ExpandInputs
       \/ fn = "graph_expander_node" /\ arg \in ExpanderNodeInputs
       \/ fn = "intent_classifier_node" /\ arg \in ClassifierInputs
       \/ fn = "vector_recall_node" /\ arg \in RecallFilterInputs
       \/ /\ fn = "run_full_retrieval"
          /\ arg \in {r \in RetrievalInputs :
                         Len(r.relevance) = Len(r.vector_candidates)}

FnNext ==
    \/ CallEvidenceAssembler
    \/ CallSufficiencyCheck
    \/ CallGuardrailCheck
    \/ CallSkipFusion
    \/ CallContextFusion
    \/ CallRerankerNode
    \/ CallRerank
    \/ CallResolve
    \/ CallQueryFullPipeline
    \/ CallQuery
    \/ CallChat
    \/ CallAnswerSynthesizer
    \/ CallExpand
    \/ CallGraphExpanderNode
    \/ CallIntentClassifier
    \/ CallVectorRecallFilter
    \/ CallRunFullRetrieval

FnSpec == FnInit /\ [][FnNext]_vars

\* ------------------------------------------------------------------------
\* The session store: run_full_retrieval with conversation memory,
\* clear_session, and the graph-store driver of the pipeline call it awaits
\* ------------------------------------------------------------------------

history_limit == 10

reference_words ==
    { "he", "she", "it", "they", "his", "her", "their", "this", "that",
      "these", "those" }

SessionQueries ==
    { <<"Who", "maintains", "P-101">>, <<"What", "does", "It", "pump">> }

Exchange(query, answer, intent) ==
    [ query |-> query, answer |-> answer, intent |-> intent ]

\* The answer of the pipeline call of run n, two blocks of text
PipelineAnswer(n) == << <<"answer", n>>, <<"rest", n>> >>

\* The history of a session after n earlier runs, the last ten of them
EarlierHistory(n) ==
    LET all == [i \in 1..n |->
                   Exchange(<<"Who", "maintains", "P-101">>,
                            << <<"earlier", i>> >>, "people")]
    IN  IF n > history_limit THEN SubSeq(all, n - history_limit + 1, n) ELSE all

\* Stores that earlier runs have left
EarlierStores ==
    { [s \in Sessions |-> <<>>],
      [s \in Sessions |-> IF s = "s1" THEN << EarlierHistory(9) >> ELSE <<>>],
      [s \in Sessions |-> IF s = "s1" THEN << EarlierHistory(12) >> ELSE <<>>],
      [s \in Sessions |-> IF s = "s1" THEN << EarlierHistory(12) >>
                                      ELSE << EarlierHistory(1) >>] }

\* The query handed to the pipeline: the question, with the last two exchanges
\* as context when the session has history and the query has a reference word
EnhancedQuery(query, history) ==
    IF history # <<>> /\ Range(Lower(query)) \cap reference_words # {}
    THEN LET recent == IF Len(history) >= 2
                       THEN SubSeq(history, Len(history) - 1, Len(history))
                       ELSE history
         IN  [ context |-> [i \in 1..Len(recent) |->
                              [ query |-> recent[i].query,
                                answer |-> Take(recent[i].answer, 1) ]],
               question |-> query ]
    ELSE [ context |-> <<>>, question |-> query ]

\* Mutant: the first ten exchanges are kept.
RecordExchange_KeepsFirst(store, session_id, query, result) ==
    LET appended == Append(store[session_id][1],
                           Exchange(query, result.answer, result.intent))
    IN  [store EXCEPT ![session_id] = << Take(appended, history_limit) >>]

\* The exchange appended to the history of the session, the last ten kept
RecordExchange(store, session_id, query, result) ==
    LET appended == Append(store[session_id][1],
                           Exchange(query, result.answer, result.intent))
        n == Len(appended)
    IN  [store EXCEPT ![session_id] =
            << IF n > history_limit
               THEN SubSeq(appended, n - history_limit + 1, n)
               ELSE appended >>]

get_session_history(session_id) ==
    IF session_store[session_id] # <<>> THEN session_store[session_id][1]
    ELSE <<>>

\* The components the pipeline constructs before its try block, in order
Components ==
    << "IntentClassifier", "GraphExpander", "Reranker", "SentenceTransformer",
       "AsyncGroq" >>

\* The awaited stages inside the try block
Stages ==
    { "intent classification", "vector search", "graph expansion",
      "reranking", "generation" }

\* GraphExpander() has opened its driver when the construction got past it
DriverOpened(failing) ==
    \/ failing = "none"
    \/ \E i \in 3..Len(Components) : Components[i] = failing

Finished(status, failed_at) ==
    [IdleCall EXCEPT !.status = status, !.failed_at = failed_at]

\* run_full_retrieval up to its await, and the pipeline call up to its try
\* block: the session is created when new, the query is enhanced, the
\* components are constructed; the construction of one of them may raise.
RunBegins ==
    \E query \in SessionQueries, session_id \in Sessions,
       failing \in Range(Components) \cup {"none"} :
        LET c == begun + 1
            store == IF session_store[session_id] = <<>>
                     THEN [session_store EXCEPT ![session_id] = << <<>> >>]
                     ELSE session_store
        IN  /\ begun < MaxRuns
            /\ begun' = c
            /\ session_store' = store
            /\ calls' = [calls EXCEPT ![c] =
                    IF failing = "none"
                    THEN [ status |-> "awaiting",
                           session |-> session_id,
                           query |-> query,
                           enhanced_query |->
                               EnhancedQuery(query, store[session_id][1]),
                           failed_at |-> "none" ]
                    ELSE Finished("raised", failing)]
            /\ drivers' = IF DriverOpened(failing) THEN drivers \cup {c}
                          ELSE drivers
            /\ UNCHANGED <<pipelineVars, harnessVars, resolverVars>>

\* The pipeline call returns: its finally block closes the driver, and the
\* exchange is recorded in _session_store[session_id], a KeyError when the
\* session is no longer in the store.
PipelineReturns ==
    \E c \in 1..MaxRuns, intent \in {"people", "definition"} :
        LET session_id == calls[c].session
            result == [answer |-> PipelineAnswer(c), intent |-> intent]
        IN  /\ calls[c].status = "awaiting"
            /\ drivers' = drivers \ {c}
            /\ IF session_store[session_id] = <<>>
               THEN /\ calls' = [calls EXCEPT
                                     ![c] = Finished("raised", "KeyError")]
                    /\ UNCHANGED session_store
               ELSE /\ calls' = [calls EXCEPT
                                     ![c] = Finished("returned", "none")]
                    /\ session_store' = RecordExchange(session_store, session_id,
                                                       calls[c].query, result)
            /\ UNCHANGED <<begun, pipelineVars, harnessVars, resolverVars>>

\* A stage of the pipeline call raises: its finally block closes the driver
\* and the exception leaves run_full_retrieval.
PipelineRaises ==
    \E c \in 1..MaxRuns, stage \in Stages :
        /\ calls[c].status = "awaiting"
        /\ drivers' = drivers \ {c}
        /\ calls' = [calls EXCEPT ![c] = Finished("raised", stage)]
        /\ UNCHANGED <<session_store, begun, pipelineVars, harnessVars,
                       resolverVars>>

clear_session ==
    \E session_id \in Sessions :
        /\ session_store' = IF session_store[session_id] # <<>>
                            THEN [session_store EXCEPT ![session_id] = <<>>]
                            ELSE session_store
        /\ UNCHANGED <<calls, begun, drivers, pipelineVars, harnessVars,
                       resolverVars>>

SessionInit ==
    /\ PipelineIdle
    /\ HarnessIdle
    /\ ResolverIdle
    /\ session_store \in EarlierStores
    /\ calls = [c \in 1..MaxRuns |-> IdleCall]
    /\ begun = 0
    /\ drivers = {}

SessionNext ==
    \/ RunBegins
    \/ PipelineReturns
    \/ PipelineRaises
    \/ clear_session

SessionSpec == SessionInit /\ [][SessionNext]_vars

\* ------------------------------------------------------------------------
\* Properties of the LangGraph run
\* ------------------------------------------------------------------------

UpPathNodes ==
    {"skip_fusion", "answer_synthesizer", "citation_generator", "guardrails"}

\* The three outcomes of a run
SuccessReached ==
    /\ pc = "END"
    /\ "guardrails" \in visited
    /\ visited \cap {"insufficient_evidence", "safety_escalation"} = {}

InsufficientReached == "insufficient_evidence" \in visited

EscalationReached == "safety_escalation" \in visited

OutcomesReached ==
    {o \in {"success", "insufficient", "escalation"} :
        \/ o = "success" /\ SuccessReached
        \/ o = "insufficient" /\ InsufficientReached
        \/ o = "escalation" /\ EscalationReached}

\* C1 (as claimed): guardrail retry is bounded -- every run that passes the
\* sufficiency gate (enters skip_fusion) eventually stops, at END or by an
\* exception, instead of cycling synthesize -> cite -> guard forever.
C1_RetryBounded == (pc = "skip_fusion") ~> (pc \in {"END", "raised"})

\* A run on the retry edge: the guardrails have run and routed back.
C1_RetryTaken ==
    /\ pc = "answer_synthesizer"
    /\ "guardrails" \in visited
    /\ state.confidence < 3000

\* C2: whenever safety_escalation is set, confidence is 0.0 -- in every state
\* of a run, the returned one included.
C2_EscalationHasZeroConfidence ==
    state.safety_escalation # <<>> => state.confidence = 0

C2_Witness ==
    pc = "END" /\ state.safety_escalation # <<>> /\ state.confidence = 0

\* C3 (as claimed): every run eventually reaches exactly one of the three
\* outcomes, and never two of them.
C3_ExactlyOneOutcome ==
    /\ [](Cardinality(OutcomesReached) <= 1)
    /\ <>(Cardinality(OutcomesReached) = 1)

\* C5: when the sufficiency gate routes to insufficient the run ends with the
\* fixed fallback answer, no citations and confidence 0.0; when it routes to
\* safety_critical the run ends with confidence 0.0 and a populated
\* SafetyEscalation; in both cases no up-path node (fusion, synthesis,
\* citation generation, guardrails) ever runs.  The gate's decision is read
\* off the state: query and evidence_pack do not change after assembly.
C5_TerminalRoutesEndTheRun ==
    "evidence_assembler" \in visited =>
        LET route == evidence_sufficiency_check(state)
        IN  /\ route = "insufficient" =>
                /\ pc \in {"insufficient_evidence", "END"}
                /\ visited \cap UpPathNodes = {}
                /\ pc = "END" =>
                      /\ "insufficient_evidence" \in visited
                      /\ state.answer = <<"FALLBACK">>
                      /\ state.citations = <<>>
                      /\ state.confidence = 0
            /\ route = "safety_critical" =>
                /\ pc \in {"safety_escalation", "END"}
                /\ visited \cap UpPathNodes = {}
                /\ pc = "END" =>
                      /\ "safety_escalation" \in visited
                      /\ state.confidence = 0
                      /\ state.safety_escalation = << SafetyEscalation >>

C5_Witness ==
    /\ pc = "END"
    /\ "insufficient_evidence" \in visited
    /\ evidence_sufficiency_check(state) = "insufficient"
    /\ state.answer = <<"FALLBACK">>

C5_WitnessSafety ==
    /\ pc = "END"
    /\ "safety_escalation" \in visited
    /\ evidence_sufficiency_check(state) = "safety_critical"

\* ------------------------------------------------------------------------
\* Properties of the functions
\* ------------------------------------------------------------------------

Returned(name) == fn = name /\ out # <<>>

\* The raw query contains a bypass keyword (the match ignores case)
QueryHasBypassKeyword(query) ==
    \E kw \in {"bypass", "override", "shortcut", "skip", "disable"} :
        InText(kw, Lower(query))

\* C4: the sufficiency gate answers insufficient without a pack; else
\* safety_critical when the pack has a safety rule and the raw query contains
\* a bypass keyword; else insufficient when passages + graph facts < 2 or
\* there is no citation; else sufficient.
C4_GateRuleOrder ==
    Returned("evidence_sufficiency_check") =>
        LET route == out[1]
        IN  IF arg.evidence_pack = <<>> THEN route = "insufficient"
            ELSE LET pack == arg.evidence_pack[1]
                     rule2 == /\ pack.safety_rules # <<>>
                              /\ QueryHasBypassKeyword(arg.query)
                     rule3 == \/ Len(pack.passages) + Len(pack.graph_facts) < 2
                              \/ pack.citations = <<>>
                 IN  /\ rule2 => route = "safety_critical"
                     /\ ~rule2 /\ rule3 => route = "insufficient"
                     /\ ~rule2 /\ ~rule3 => route = "sufficient"

\* Rule 2 wins over rule 3: a bypass query, one passage with a safety rule
C4_Witness ==
    /\ Returned("evidence_sufficiency_check")
    /\ arg.evidence_pack # <<>>
    /\ Len(arg.evidence_pack[1].passages)
         + Len(arg.evidence_pack[1].graph_facts) < 2
    /\ arg.evidence_pack[1].safety_rules # <<>>
    /\ out[1] = "safety_critical"

\* C6: guardrail routing is escalate when a safety escalation is set, else
\* retry when confidence < 0.30 or there is no citation, else pass; so what
\* passes has confidence >= 0.30, a citation and no SafetyEscalation, and
\* only pass leads to the end of the run.
C6_GuardrailRouting ==
    Returned("guardrail_check") =>
        LET route == out[1]
        IN  /\ route = IF arg.safety_escalation # <<>> THEN "escalate"
                       ELSE IF arg.confidence < 3000 \/ arg.citations = <<>>
                            THEN "retry"
                       ELSE "pass"
            /\ route = "pass" => /\ arg.confidence >= 3000
                                 /\ arg.citations # <<>>
                                 /\ arg.safety_escalation = <<>>
            /\ GuardrailEdge(route) = "END" <=> route = "pass"

C6_Witness ==
    /\ Returned("guardrail_check")
    /\ arg.confidence >= 3000
    /\ arg.citations = <<>>
    /\ arg.safety_escalation = <<>>
    /\ out[1] = "retry"

\* C6 in a run: a run that ended through pass holds confidence >= 0.30, a
\* citation and no SafetyEscalation.
C6_PassedRuns ==
    SuccessReached => /\ state.confidence >= 3000
                      /\ state.citations # <<>>
                      /\ state.safety_escalation = <<>>

\* The position of the first passage of a document
FirstOccurrence(doc, passages) ==
    CHOOSE i \in 1..Len(passages) :
        /\ passages[i].doc_id = doc
        /\ \A j \in 1..(i - 1) : passages[j].doc_id # doc

\* C7: the citations of evidence assembly hold no document id twice, hold
\* one entry for each document id of the passages, and are ordered by the
\* first occurrence of their document ids in the passage list.
C7_CitationsUniqueFirstSeen ==
    Returned("evidence_assembler_node") =>
        LET passages == arg.reranked_evidence
            cites == out[1].evidence_pack[1].citations
            docOf(i) == cites[i].doc_id
        IN  /\ \A i, j \in 1..Len(cites) : i # j => docOf(i) # docOf(j)
            /\ {docOf(i) : i \in 1..Len(cites)}
                 = {passages[i].doc_id : i \in 1..Len(passages)}
            /\ \A i, j \in 1..Len(cites) :
                 i < j => FirstOccurrence(docOf(i), passages)
                            < FirstOccurrence(docOf(j), passages)

\* Four passages that start D2, D1, D2 and cite two documents
C7_Witness ==
    /\ Returned("evidence_assembler_node")
    /\ Len(arg.reranked_evidence) = 4
    /\ arg.reranked_evidence[1].doc_id = "D2"
    /\ arg.reranked_evidence[2].doc_id = "D1"
    /\ arg.reranked_evidence[3].doc_id = "D2"
    /\ Len(out[1].evidence_pack[1].citations) = 2

\* The fused list a fusion call returned, and the texts of its three buffers
FusedList ==
    IF fn = "skip_fusion_node" THEN out[1].fused_evidence ELSE out[1]

BufferTexts(name) ==
    CASE name = "vector" ->
           {arg.skip_vector[i].content : i \in 1..Len(arg.skip_vector)}
      [] name = "graph" ->
           {arg.skip_graph[i].fact : i \in 1..Len(arg.skip_graph)}
      [] name = "rerank" ->
           {arg.skip_rerank[i].content : i \in 1..Len(arg.skip_rerank)}

\* The first buffer, in the order vector, graph, rerank, that holds a text
FirstBuffer(text) ==
    IF text \in BufferTexts("vector") THEN "vector"
    ELSE IF text \in BufferTexts("graph") THEN "graph"
    ELSE "rerank"

FusionDedup ==
    LET fused == FusedList
        texts == BufferTexts("vector") \cup BufferTexts("graph")
                   \cup BufferTexts("rerank")
    IN  /\ \A text \in texts :
              \E i \in 1..Len(fused) :
                  /\ fused[i].content = text
                  /\ fused[i].source = FirstBuffer(text)
                  /\ \A j \in 1..Len(fused) : fused[j].content = text => j = i
        /\ \A i, j \in 1..Len(fused) :
              i # j => content_hash(fused[i].content)
                         # content_hash(fused[j].content)

\* C8 (as claimed): skip-connection fusion, in the LangGraph node and in the
\* live pipeline, keeps one entry for each content of the buffers, attributed
\* to the first buffer that holds it in the order vector, graph, rerank, and
\* no two entries have the same content hash.
C8_FusionFirstBufferWins ==
    (Returned("skip_fusion_node") \/ Returned("context_fusion")) => FusionDedup

\* C8 for the LangGraph node alone
C8_NodeFusionFirstBufferWins ==
    Returned("skip_fusion_node") => FusionDedup

\* A content held by the vector and the graph buffer, fused by the live pipeline
C8_SharedContentFused ==
    /\ Returned("context_fusion")
    /\ BufferTexts("vector") \cap BufferTexts("graph") # {}

\* The candidates a rerank call was given, the list it returned, and the
\* score each candidate is to get
RerankCandidatesIn ==
    IF fn = "reranker_node" THEN arg.vector_candidates ELSE arg.candidates

RerankedOut ==
    IF fn = "reranker_node" THEN out[1].reranked_evidence ELSE out[1]

RerankScore(i) ==
    IF fn = "reranker_node"
    THEN compute_hybrid_score(arg.vector_candidates[i], arg.graph_facts)
    ELSE FinalScore(arg.candidates[i].score, arg.relevance[i])

IdentityFields == {"chunk_id", "doc_id", "document_id", "content", "metadata"}

RerankStableTopTen ==
    LET cands == RerankCandidatesIn
        res == RerankedOut
        pos(o) == CHOOSE i \in 1..Len(cands) : cands[i].chunk_id = o.chunk_id
        kept == {pos(res[i]) : i \in 1..Len(res)}
    IN  /\ Len(res) = Min(10, Len(cands))
        /\ \A i \in 1..Len(res) :
              /\ \E k \in 1..Len(cands) : cands[k].chunk_id = res[i].chunk_id
              /\ res[i].score = RerankScore(pos(res[i]))
              /\ \A f \in IdentityFields \cap DOMAIN cands[pos(res[i])] :
                    /\ f \in DOMAIN res[i]
                    /\ res[i][f] = cands[pos(res[i])][f]
        /\ \A i, j \in 1..Len(res) :
              i < j => \/ res[i].score > res[j].score
                       \/ /\ res[i].score = res[j].score
                          /\ pos(res[i]) < pos(res[j])
        /\ \A k \in (1..Len(cands)) \ kept :
              \A i \in 1..Len(res) :
                  \/ res[i].score > RerankScore(k)
                  \/ res[i].score = RerankScore(k) /\ pos(res[i]) < k

\* C9 (as claimed): reranking, in the LangGraph node and in the live
\* pipeline's Reranker, returns the candidates in descending order of their
\* score, equal scores in recall order, at most 10 of them, each with the
\* chunk id, document id, content and metadata of its candidate.
C9_RerankStableTopTen ==
    (Returned("reranker_node") \/ Returned("Reranker.rerank"))
        => RerankStableTopTen

\* C9 for the LangGraph node alone
C9_NodeRerankStableTopTen ==
    Returned("reranker_node") => RerankStableTopTen

\* Eleven candidates with a tie, cut to ten by the live pipeline's Reranker
C9_ElevenReranked ==
    /\ Returned("Reranker.rerank")
    /\ Len(arg.candidates) = 11
    /\ Len(out[1]) = 10
    /\ arg.relevance[1] = 5000
    /\ arg.relevance[11] = 9000

\* ------------------------------------------------------------------------
\* Properties of the resolver
\* ------------------------------------------------------------------------

\* The graph holds an entity with the canonical name of a mention
GraphHoldsName(entity) ==
    \E n \in graph : /\ n.label \in entity_labels
                     /\ n.canonical_name = normalize(entity).canonical_name

\* C10 (as claimed): resolving the same mention twice against a graph that
\* holds an entity with its canonical name, the graph unchanged in between,
\* gives MERGE both times, with the id of that entity, and no new id.
C10_ResolveTwiceMergesSameId ==
    \A i, j \in 1..Len(resolutions) :
        (/\ i < j
         /\ resolutions[i].entity = resolutions[j].entity
         /\ GraphHoldsName(resolutions[i].entity))
        => /\ resolutions[i].result.action = "MERGE"
           /\ resolutions[j].result.action = "MERGE"
           /\ resolutions[i].result.entity_id = resolutions[j].result.entity_id
           /\ \E n \in graph : n.id = resolutions[i].result.entity_id

\* The same mention resolved twice against a graph that holds its name
C10_ResolvedTwice ==
    /\ Len(resolutions) >= 2
    /\ resolutions[1].entity = resolutions[2].entity
    /\ GraphHoldsName(resolutions[1].entity)

\* The candidates a resolve call found and the score of each
ResolveCandidates ==
    find_candidates(arg.nodes, normalize(arg.entity), 5, arg.apoc_available)

CandidateScore(candidate) ==
    (arg.weights[1] * compute_embedding_similarity(normalize(arg.entity).embedding,
                                                   candidate.embedding)
     + arg.weights[2] * compute_context_similarity(normalize(arg.entity),
                                                   candidate)) \div 10

\* The candidates with the highest score
TopCandidates ==
    LET cands == ResolveCandidates
    IN  {cands[i] : i \in {i \in 1..Len(cands) :
                              \A j \in 1..Len(cands) :
                                  CandidateScore(cands[i])
                                    >= CandidateScore(cands[j])}}

FreshId(id) == \A n \in arg.nodes : n.id # id

\* C11: resolve decides on the highest-scoring candidate alone: score >= 0.85
\* gives MERGE with the candidate's id and no new entity; else score >= 0.70
\* gives LINK with a fresh id, link_to the candidate's id and link type
\* RELATED_TO; else CREATE with a fresh id and no link; without candidates
\* the result is CREATE.
C11_DecisionOnBestCandidate ==
    Returned("EntityResolver.resolve") =>
        LET r == out[1]
            created == /\ r.action = "CREATE"
                       /\ FreshId(r.entity_id)
                       /\ r.canonical # <<>>
                       /\ r.canonical[1].id = r.entity_id
                       /\ r.link_to = <<>>
                       /\ r.link_type = <<>>
        IN  IF ResolveCandidates = <<>> THEN created
            ELSE LET top == CHOOSE c \in TopCandidates : TRUE
                     score == CandidateScore(top)
                 IN  /\ score >= 8500 =>
                           /\ r.action = "MERGE"
                           /\ \E c \in TopCandidates : r.entity_id = c.id
                           /\ r.canonical = <<>>
                     /\ (score < 8500 /\ score >= 7000) =>
                           /\ r.action = "LINK"
                           /\ FreshId(r.entity_id)
                           /\ r.canonical # <<>>
                           /\ \E c \in TopCandidates : r.link_to = <<c.id>>
                           /\ r.link_type = <<"RELATED_TO">>
                     /\ score < 7000 => created

\* Two candidates, the second of which scores higher and is merged into
C11_Witness ==
    /\ Returned("EntityResolver.resolve")
    /\ Len(ResolveCandidates) = 2
    /\ CandidateScore(ResolveCandidates[2]) > CandidateScore(ResolveCandidates[1])
    /\ out[1].action = "MERGE"
    /\ out[1].entity_id = ResolveCandidates[2].id

\* A LINK decision
C11_WitnessLink ==
    /\ Returned("EntityResolver.resolve")
    /\ out[1].action = "LINK"

\* The exception that made a request fail
RequestFailure ==
    IF ~arg.retrieval.ok THEN <<arg.retrieval.error>>
    ELSE IF fn = "query" /\ ~arg.audit.ok THEN <<arg.audit.error>>
    ELSE <<>>

\* C12 (as claimed): when a request fails, the response the caller receives
\* does not carry the text of the internal exception.
C12_NoExceptionTextInResponse ==
    (\E h \in {"query_full_pipeline", "query", "chat"} : Returned(h)) =>
        (RequestFailure # <<>> =>
            /\ out[1].status_code = 500
            /\ out[1].detail # ExceptionStr(RequestFailure[1]))

\* A request whose retrieval raised
C12_FailedRequest ==
    /\ Returned("query_full_pipeline")
    /\ ~arg.retrieval.ok
    /\ out[1].status_code = 500


\* C13 (as claimed): the confidence answer synthesis produces is
\* min(0.95, 0.1 x the number of fused evidence items), and the confidence of
\* every pipeline output -- the update of answer synthesis, the result of
\* run_full_retrieval -- lies in [0, 1].
C13_ConfidenceInUnitInterval ==
    /\ Returned("answer_synthesizer_node") =>
          /\ out[1].confidence = Min(9500, 1000 * Len(arg.fused_evidence))
          /\ out[1].confidence \in 0..10000
    /\ Returned("run_full_retrieval") => out[1].confidence \in 0..10000

\* The part of C13 about answer synthesis alone
C13_SynthesisConfidence ==
    Returned("answer_synthesizer_node") =>
        /\ out[1].confidence = Min(9500, 1000 * Len(arg.fused_evidence))
        /\ out[1].confidence \in 0..10000

\* A run of the live pipeline returned with a candidate the relevance scorer
\* gave a score above 1
C13_RelevanceAboveOne ==
    /\ Returned("run_full_retrieval")
    /\ \E i \in 1..Len(arg.relevance) : arg.relevance[i] > 10000

\* Answer synthesis returned on more than ten fused items
C13_SynthesisCapped ==
    /\ Returned("answer_synthesizer_node")
    /\ Len(arg.fused_evidence) > 10
    /\ out[1].confidence = 9500


\* query.lower().split() holds the token "ppe"
HasPpeToken(query) == \E i \in 1..Len(query) : LowerWord(query[i]) = "ppe"

\* C14 (as claimed): for every query containing the token "ppe" -- "What PPE
\* is required for working on valve V-201?" among them -- the intent assigned
\* after normalization and classification is SAFETY.
C14_PpeQueryIsSafety ==
    (Returned("intent_classifier_node") /\ HasPpeToken(arg.query)) =>
        out[1].intent = "SAFETY"

\* The classifier returned on the safety query of test_full_pipeline
C14_TestQueryClassified ==
    /\ Returned("intent_classifier_node")
    /\ arg.query = <<"What", "PPE", "is", "required", "for", "working", "on",
                     "valve", "V-201?">>


\* C15: the guardrails stage changes nothing but the answer and the stage
\* timings -- confidence, citations, evidence pack, fused evidence and
\* safety_escalation, and every other field of the state, are after the stage
\* what they were before it.
C15_GuardrailsChangesOnlyAnswer ==
    [][pc = "guardrails" =>
          /\ state'.confidence = state.confidence
          /\ state'.citations = state.citations
          /\ state'.evidence_pack = state.evidence_pack
          /\ state'.fused_evidence = state.fused_evidence
          /\ state'.safety_escalation = state.safety_escalation
          /\ \A f \in DOMAIN state \ {"answer", "stage_timings"} :
                 state'[f] = state[f]]_vars

\* The guardrails ran on an answer with a hedging phrase and appended the
\* disclaimer; the run holds the confidence and the citations of the stages
\* before
C15_GuardrailsRewroteAnswer ==
    /\ "guardrails" \in visited
    /\ pc # "guardrails"
    /\ state.answer # <<>>
    /\ state.answer[Len(state.answer)] = "DISCLAIMER"
    /\ state.confidence > 0
    /\ state.citations # <<>>


\* The answer mentions "safety", "warning" or "caution"
SafetyMentioned(answer) ==
    \E word \in {"safety", "warning", "caution"} : InAnswer(word, answer)

\* C16 (as claimed): when the evidence pack holds a safety rule, the
\* guardrails stage completes; it returns the answer with the fixed safety
\* reminder appended when the answer mentions none of "safety", "warning",
\* "caution", and without the reminder when the answer mentions one of them.
C16_SafetyReminder ==
    [][(pc = "guardrails" /\ state.evidence_pack # <<>>
                          /\ state.evidence_pack[1].safety_rules # <<>>) =>
          /\ pc' # "raised"
          /\ state'.answer # <<>>
          /\ SafetyMentioned(state.answer) <=>
                 state'.answer[Len(state'.answer)] # "SAFETY_REMINDER"]_vars

\* The guardrails were reached with a pack that holds a safety rule and an
\* answer that mentions none of the three words, and the stage raised
C16_GuardrailsRaisedOnSafetyPack ==
    /\ pc = "raised"
    /\ state.evidence_pack[1].safety_rules # <<>>
    /\ ~SafetyMentioned(state.answer)


\* C17: the skip buffers are snapshots -- skip_vector is the first ten vector
\* candidates, skip_graph the first fifteen graph facts, skip_rerank the
\* first five reranked candidates; once its stage has run no later step
\* changes a buffer, and fusion fuses exactly the three buffers.
C17_SkipBuffersAreSnapshots ==
    [][/\ pc = "vector_recall" =>
              state'.skip_vector = Take(state'.vector_candidates, 10)
       /\ pc = "graph_expander" =>
              state'.skip_graph = Take(state'.graph_facts, 15)
       /\ pc = "reranker" =>
              state'.skip_rerank = Take(state'.reranked_evidence, 5)
       /\ "vector_recall" \in visited => state'.skip_vector = state.skip_vector
       /\ "graph_expander" \in visited => state'.skip_graph = state.skip_graph
       /\ "reranker" \in visited => state'.skip_rerank = state.skip_rerank
       /\ pc = "skip_fusion" =>
              state'.fused_evidence =
                  SkipFusion(state.skip_vector, state.skip_graph,
                             state.skip_rerank)]_vars

\* A run ended past the guardrails with each buffer a proper prefix of what
\* its stage produced: more than ten candidates, more than fifteen facts, more
\* than five reranked
C17_BuffersCutAndCarried ==
    /\ pc = "END"
    /\ "guardrails" \in visited
    /\ Len(state.vector_candidates) > 10 /\ Len(state.skip_vector) = 10
    /\ Len(state.graph_facts) > 15 /\ Len(state.skip_graph) = 15
    /\ Len(state.reranked_evidence) > 5 /\ Len(state.skip_rerank) = 5
    /\ state.fused_evidence # <<>>


\* The facts the traversals of a call of graph_expander_node discover, in
\* the order of discovery
NodeDiscoveredFacts ==
    LET entities == Take(arg.extracted_entities, 10)
    IN  FlattenSeq([i \in 1..Len(entities) |->
                       EntityFacts(entities[i], TraversalConfig(arg.intent),
                                   i \in arg.failing)])

\* facts are at most 20, and are the discovered facts in their order with
\* every fact dropped whose text an earlier one has
CappedUniqueInOrder(facts, discovered) ==
    /\ Len(facts) <= 20
    /\ \A i, j \in 1..Len(facts) : i < j => facts[i].fact # facts[j].fact
    /\ facts = Take(UniqueFacts(discovered), Len(facts))

\* C18 (as claimed): the graph facts graph expansion produces for a run are at
\* most 20, in discovery order, and no two of them have the same fact text,
\* the first occurrence being the one kept.
C18_FactsCappedUniqueInOrder ==
    /\ Returned("GraphExpander.expand") =>
           CappedUniqueInOrder(out[1].facts,
                               DiscoveredFacts(arg.seed_chunks, arg.intent,
                                               arg.failing))
    /\ Returned("graph_expander_node") =>
           CappedUniqueInOrder(out[1].graph_facts, NodeDiscoveredFacts)

\* An expansion returned that discovered more than 20 facts of different text
C18_MoreThanTwentyDiscovered ==
    /\ Returned("GraphExpander.expand")
    /\ Len(UniqueFacts(DiscoveredFacts(arg.seed_chunks, arg.intent,
                                       arg.failing))) > 20


\* What the first ten entities of a call of graph_expander_node contribute
\* when each is traversed on its own: nothing from an entity whose traversal
\* raises, and from every other entity what it yields when nothing raises
IndependentEntityFacts ==
    LET entities == Take(arg.extracted_entities, 10)
    IN  FlattenSeq([i \in 1..Len(entities) |->
                       IF i \in arg.failing THEN <<>>
                       ELSE EntityFacts(entities[i],
                                        TraversalConfig(arg.intent), FALSE)])

\* The part of C19 about graph_expander_node: the facts are those of the
\* first ten entities, each entity's facts unaffected by the failures of the
\* others
C19_NodeFailureIsolated ==
    Returned("graph_expander_node") =>
        out[1].graph_facts = IndependentEntityFacts

\* The part of C19 about GraphExpander.expand: every entity a seed chunk
\* mentions whose own traversal does not raise has its facts in the result
\* (unless the result is full)
ExpandFailureIsolated ==
    LET seeds == Take(arg.seed_chunks, 5)
        texts == {out[1].facts[k].fact : k \in 1..Len(out[1].facts)}
    IN  \A i \in 1..Len(seeds) :
            seeds[i] \notin arg.failing =>
                \A j \in 1..Len(ChunkMentions(seeds[i])) :
                    LET entity == ChunkMentions(seeds[i])[j].entity
                        facts == ConnectionFacts(entity)
                    IN  entity.id \notin arg.failing =>
                            \/ Len(out[1].facts) = 30
                            \/ \A k \in 1..Len(facts) : facts[k].fact \in texts

\* C19 (as claimed): graph expansion traverses from at most the first ten
\* extracted entities, and a failure for one entity never fails the run and
\* never affects the other entities -- the facts of the entities before it are
\* kept and the entities after it are still traversed.
C19_EntityFailureIsolated ==
    /\ Returned("graph_expander_node") =>
           out[1].graph_facts = IndependentEntityFacts
    /\ Returned("GraphExpander.expand") => ExpandFailureIsolated

\* An expansion returned in which the traversal of the first entity of a
\* chunk raised and the chunk mentions a second entity
C19_FirstEntityOfChunkFailed ==
    /\ Returned("GraphExpander.expand")
    /\ arg.seed_chunks = <<"k1">>
    /\ arg.failing = {"T-500"}

\* The node returned on eleven entities of which the second raised, with
\* facts of the first and of the tenth and none of the eleventh
C19_NodeSkippedFailedEntity ==
    /\ Returned("graph_expander_node")
    /\ Len(arg.extracted_entities) = 11
    /\ arg.failing = {2}
    /\ arg.extracted_entities[1].name = "V-201"
    /\ arg.extracted_entities[2].name = "T-500"
    /\ arg.extracted_entities[10].name = "T-500"
    /\ arg.extracted_entities[11].name = "V-201"
    /\ arg.intent = "PROCEDURE"
    /\ Len(out[1].graph_facts) = 1 + MaxPaths


\* C20 (as claimed): a slow or never-returning traversal for one entity does
\* not block graph expansion -- the run still proceeds to reranking.
C20_TraversalDoesNotBlock == (pc = "graph_expander") ~> (pc = "reranker")

\* Graph expansion is at the await of a traversal, with a second entity still
\* to traverse and reranking not reached
C20_AwaitingTraversal ==
    /\ pc = "awaiting_traversal"
    /\ Len(state.extracted_entities) >= 2
    /\ "reranker" \notin visited


\* C21 (as claimed): of the resolve calls of a batch whose mentions normalize
\* to one canonical name the graph does not hold, no two results carry
\* different new entity ids.
C21_OneNewEntityPerName ==
    \A i, j \in 1..Len(resolutions) :
        (/\ i < j
         /\ normalize(resolutions[i].entity).canonical_name
                = normalize(resolutions[j].entity).canonical_name
         /\ ~GraphHoldsName(resolutions[i].entity)
         /\ resolutions[i].result.canonical # <<>>
         /\ resolutions[j].result.canonical # <<>>)
        => resolutions[i].result.entity_id = resolutions[j].result.entity_id

\* Two mentions written differently, of one canonical name the graph does
\* not hold, were resolved one after the other
C21_SameNewNameResolvedTwice ==
    /\ Len(resolutions) >= 2
    /\ resolutions[1].entity # resolutions[2].entity
    /\ normalize(resolutions[1].entity).canonical_name
           = normalize(resolutions[2].entity).canonical_name
    /\ ~GraphHoldsName(resolutions[1].entity)


\* The nodes of the store of a resolve call that the exact query matches, and
\* those the fuzzy query would match
ExactMatches ==
    {n \in arg.nodes : /\ n.canonical_name = normalize(arg.entity).canonical_name
                       /\ n.label \in entity_labels}

NearMatches ==
    {n \in arg.nodes :
        /\ n.label \in entity_labels
        /\ LevenshteinDistance(n.canonical_name,
                               normalize(arg.entity).canonical_name) < 3}

\* C22: when the exact query returns a node that node is the only candidate
\* and the fuzzy query is not issued; when the fuzzy query raises there is no
\* fuzzy candidate and resolve completes, with CREATE when there is no exact
\* match.
C22_CandidateSearchDegrades ==
    Returned("EntityResolver.resolve") =>
        /\ ExactMatches # {} =>
              /\ Len(ResolveCandidates) = 1
              /\ ResolveCandidates[1].match_type = "exact"
              /\ \E n \in ExactMatches : ResolveCandidates[1].id = n.id
              /\ ~FuzzyQueryIssued(arg.nodes, normalize(arg.entity))
        /\ ~arg.apoc_available =>
              /\ \A i \in 1..Len(ResolveCandidates) :
                     ResolveCandidates[i].match_type # "fuzzy"
              /\ ExactMatches = {} => /\ ResolveCandidates = <<>>
                                      /\ out[1].action = "CREATE"

\* resolve returned CREATE on a store with near nodes and no exact match,
\* the fuzzy query having raised
C22_FuzzyRaisedAndCreated ==
    /\ Returned("EntityResolver.resolve")
    /\ ~arg.apoc_available
    /\ ExactMatches = {}
    /\ NearMatches # {}
    /\ out[1].action = "CREATE"

\* resolve returned on a store that holds the name and a node near it, with
\* fuzzy matching available
C22_ExactAmongNear ==
    /\ Returned("EntityResolver.resolve")
    /\ arg.apoc_available
    /\ ExactMatches # {}
    /\ NearMatches \ ExactMatches # {}


\* The values of EntityType and the node labels of the candidate queries, in
\* the order both lists are written in
EntityType ==
    << "ASSET", "COMPONENT", "FAILURE_MODE", "SYMPTOM", "PROCEDURE", "TOOL",
       "MATERIAL", "SAFETY_RULE", "TERM", "STANDARD", "LOCATION", "MANUFACTURER" >>

NodeLabels ==
    << "Asset", "Component", "FailureMode", "Symptom", "Procedure", "Tool",
       "Material", "SafetyRule", "Term", "Standard", "Location", "Manufacturer" >>

\* A mention type and a candidate type (a node label) denote one entity type
DenoteSameType(type, label) ==
    \E i \in 1..Len(EntityType) : EntityType[i] = type /\ NodeLabels[i] = label

\* C23 (as claimed): the context-similarity term of a candidate is 0.5 when
\* the mention's type and the candidate's type denote the same entity type,
\* and 0 otherwise.
C23_ContextTermOnSameType ==
    Returned("EntityResolver.resolve") =>
        \A i \in 1..Len(ResolveCandidates) :
            compute_context_similarity(normalize(arg.entity), ResolveCandidates[i])
              = IF DenoteSameType(arg.entity.type, ResolveCandidates[i].type)
                THEN 5000 ELSE 0

\* resolve scored an Asset node against an ASSET mention
C23_AssetAgainstAssetNode ==
    /\ Returned("EntityResolver.resolve")
    /\ arg.entity.type = "ASSET"
    /\ \E i \in 1..Len(ResolveCandidates) : ResolveCandidates[i].type = "Asset"


\* The stages of the down path in the order of the edges
DownPath ==
    << "query_normalizer", "intent_classifier", "vector_recall",
       "entity_extractor", "graph_expander", "reranker", "evidence_assembler" >>

\* The stage starts with this step
Starts(node) == pc' = node /\ pc # node

\* C24: the down-path stages run in the order normalize, classify, vector
\* recall, entity extraction, graph expansion, rerank, evidence assembly: a
\* stage starts only when its predecessor has just completed and has not run
\* before, all seven have run when the evidence gate routes, and fusion starts
\* at most once in a run, a retry going back to synthesis.
C24_DownPathInOrderFusionOnce ==
    [][ /\ \A i \in 2..Len(DownPath) :
               Starts(DownPath[i]) =>
                   /\ pc = DownPath[i - 1]
                   /\ visited' = {DownPath[j] : j \in 1..(i - 1)}
        /\ ~Starts(DownPath[1])
        /\ (pc = "evidence_assembler" /\ pc' # pc) =>
               /\ visited' = Range(DownPath)
               /\ pc' \in {"skip_fusion", "insufficient_evidence",
                           "safety_escalation"}
        /\ Starts("skip_fusion") =>
               /\ pc = "evidence_assembler"
               /\ "skip_fusion" \notin visited
        /\ (pc = "guardrails" /\ pc' \in NodeNames) =>
               pc' = "answer_synthesizer" ]_vars

\* A retry is under way: synthesis is about to run again after guardrails
C24_RetryReturnedToSynthesis ==
    /\ pc = "answer_synthesizer"
    /\ "guardrails" \in visited
    /\ "skip_fusion" \in visited


\* Synthesis, citation or guardrails completes with this step in a pass that a
\* retry started
RetryPassStep ==
    /\ "guardrails" \in visited
    /\ pc \in {"answer_synthesizer", "citation_generator", "guardrails"}
    /\ pc' # pc

LevelRank(level) ==
    CHOOSE i \in 1..Len(ClassificationLevel) : ClassificationLevel[i] = level

\* C27 (as claimed): the classification filter of vector recall allows
\* exactly the user's level and the levels below it in the order public <
\* internal < confidential < restricted, and no result is classified above
\* the user's level.
C27_FilterAllowsLevelAndBelow ==
    Returned("vector_recall_node") =>
        /\ Range(out[1].classification)
               = {l \in Range(ClassificationLevel) :
                      LevelRank(l) <= LevelRank(arg.access_level)}
        /\ \A c \in out[1].results :
               LevelRank(c.classification) <= LevelRank(arg.access_level)

\* vector recall returned for an internal user on a collection that holds a
\* confidential chunk
C27_InternalUserConfidentialChunk ==
    /\ Returned("vector_recall_node")
    /\ arg.access_level = "internal"
    /\ \E c \in arg.chunks : c.classification = "confidential"

\* C28: safety_escalation is written at most once in a run and only by the
\* safety-escalation terminal, which ends the run; it is null whenever
\* guardrail routing is evaluated, so the escalate branch out of guardrails
\* is never taken.
C28_EscalationOnlyByTerminal ==
    [][ /\ state'.safety_escalation # state.safety_escalation =>
               /\ pc = "safety_escalation"
               /\ state.safety_escalation = <<>>
               /\ pc' = "END"
        /\ (pc = "guardrails" /\ pc' # pc) =>
               /\ state'.safety_escalation = <<>>
               /\ pc' = "raised" \/ guardrail_check(state') # "escalate"
               /\ pc' # "safety_escalation" ]_vars

\* The terminal has set the escalation and the run has ended
C28_TerminalSetEscalation ==
    /\ pc = "END"
    /\ visited = Range(DownPath) \cup {"safety_escalation"}
    /\ state.safety_escalation = <<SafetyEscalation>>

\* Guardrail routing has been evaluated and the run has passed
C28_GuardrailRoutingEvaluated ==
    /\ pc = "END"
    /\ "guardrails" \in visited
    /\ state.safety_escalation = <<>>

\* ------------------------------------------------------------------------
\* Properties of the session store
\* ------------------------------------------------------------------------

\* The call completes with this step: its exchange is recorded
Completes(c) == calls[c].status = "awaiting" /\ calls'[c].status = "returned"

\* C25: after every completed run_full_retrieval the history of its session
\* holds at most ten exchanges, the new one last after the most recent earlier
\* ones in their order, and the other sessions are unchanged; no session ever
\* holds more than ten.
C25_HistoryBounded ==
    [][ /\ \A s \in Sessions :
               session_store'[s] # <<>> =>
                   Len(session_store'[s][1]) <= history_limit
        /\ \A c \in 1..MaxRuns :
               Completes(c) =>
                   LET s == calls[c].session
                       old == session_store[s][1]
                       new == session_store'[s][1]
                       kept == Len(new) - 1
                   IN  /\ Len(new) = Min(Len(old) + 1, history_limit)
                       /\ new[Len(new)].query = calls[c].query
                       /\ new[Len(new)].answer = PipelineAnswer(c)
                       /\ \A i \in 1..kept :
                              new[i] = old[Len(old) - kept + i]
                       /\ \A t \in Sessions \ {s} :
                              session_store'[t] = session_store[t] ]_vars

\* A run completed on a session that held ten exchanges: the oldest is gone
C25_EleventhExchangeRecorded ==
    \E c \in 1..MaxRuns, s \in Sessions :
        /\ calls[c].status = "returned"
        /\ Len(get_session_history(s)) = history_limit
        /\ get_session_history(s)[history_limit].answer = PipelineAnswer(c)
        /\ get_session_history(s)[1].answer = << <<"earlier", 4>> >>


\* The pipeline call awaited by run c returns with this step
AwaitReturns(c) ==
    /\ calls[c].status = "awaiting"
    /\ calls'[c].status # "awaiting"
    /\ calls'[c].failed_at \notin Stages

\* C29 (as claimed): when clear_session(s) has run while run_full_retrieval
\* (q, s) was suspended at its await, the run returns without raising once
\* the pipeline call returns, and the session then holds the new exchange
\* and nothing else.
C29_ClearDuringRunIsHarmless ==
    [][ \A c \in 1..MaxRuns :
            (AwaitReturns(c) /\ session_store[calls[c].session] = <<>>) =>
                /\ calls'[c].status = "returned"
                /\ \E intent \in {"people", "definition"} :
                       session_store'[calls[c].session]
                           = << << Exchange(calls[c].query, PipelineAnswer(c),
                                            intent) >> >> ]_vars

\* A run is suspended at its await and its session has been cleared
C29_ClearedWhileAwaiting ==
    \E c \in 1..MaxRuns :
        /\ calls[c].status = "awaiting"
        /\ session_store[calls[c].session] = <<>>

\* C30 (as claimed): the graph-store driver a run_full_retrieval call opened
\* is closed when the call has returned or raised, whichever step failed.
C30_DriverClosedAfterCall ==
    \A c \in 1..MaxRuns :
        calls[c].status \in {"returned", "raised"} => c \notin drivers

\* A call has raised while constructing a component after GraphExpander
C30_ConstructionFailedAfterExpander ==
    \E c \in 1..MaxRuns :
        /\ calls[c].status = "raised"
        /\ calls[c].failed_at \in {"Reranker", "SentenceTransformer", "AsyncGroq"}

\* Calls that raised in a stage, and calls that returned, have closed theirs
C30_ClosedByFinally ==
    \A c \in 1..MaxRuns :
        (calls[c].status = "returned" \/ calls[c].failed_at \in Stages)
            => c \notin drivers

====
